---- MODULE Spec2Model ----
(***************************************************************************)
(* ATS detection and application-flow optimisation of JobLens:             *)
(*   src/src/ats/application_flow_optimizer.py  (ApplicationFlowOptimizer) *)
(*   src/src/ats/csv_applicator.py              (CSVJobApplicator)         *)
(*                                                                         *)
(* Units.  Python floats are modelled by exact integers:                   *)
(*   - a confidence is counted in tenths (0.9 is 9, 0.3 is 3, 0.2 is 2);   *)
(*   - a duration is counted in seconds;                                   *)
(*   - a prefill rate is counted in units of 1/len(generic mapping);       *)
(*   - a running average is the exact rational, stored multiplied by       *)
(*     AvgScale = MaxAttempts!, which makes every division by n exact.     *)
(* Python values that may or may not be strings are records                *)
(*   [t |-> "str" | "None" | "missing" | "raise", v |-> text].             *)
(***************************************************************************)
EXTENDS Integers, Sequences, FiniteSets, TLC

VARIABLES
    metrics,        \* self.metrics (ApplicationMetrics)
    recorded,       \* history of the results handed to the metrics updater:
                    \* their number and the sums of the per-attempt values
    job_url,        \* the job_url argument of detect_ats_system
    page,           \* the page: what content() and query_selector_all() do
    detection,      \* how the last detect_ats_system call ended
    profile,        \* the candidate profile handed to the Field Filler
    mappings,       \* the vendor whose field mapping the Field Filler is given
    form,           \* the current value of each element of the page
    fill_runs,      \* calls of _fill_form_fields made so far
    filled_fields,  \* how the last _fill_form_fields call ended, and its result
    fill_log,       \* every element.fill() call made so far
    flow,           \* how the last optimize_application_flow call ended, and its result
    clicks,         \* every button.click() call made so far
    jobs,           \* the job list handed to apply_to_jobs: the url entry of each job
    batch,          \* apply_to_jobs: where it stands, its locals and its stats
    job_log,        \* per job: what apply_to_jobs did for it so far
    sleeps,         \* every time.sleep() of apply_to_jobs, in order
    browser,        \* how often the browser was launched and quit, and its context
                    \* opened and closed
    csv,            \* the CSV file handed to read_csv_jobs, and whether it was read
    snapshot,       \* save_optimization_data: the calls made, how the last one ended
                    \* and the state of the snapshot file
    review_queue,   \* the rows of manual_review_queue, by id
    review_call     \* the last ManualReviewManager call: what it was given, what
                    \* it found and what it returned

metricsVars == <<metrics, recorded>>
detectVars == <<job_url, page, detection>>
fillVars == <<profile, mappings, form, fill_runs, filled_fields, fill_log>>
flowVars == <<flow, clicks>>
batchVars == <<jobs, batch, job_log, sleeps, browser>>
csvVars == <<csv>>
saveVars == <<snapshot>>
reviewVars == <<review_queue, review_call>>
vars == <<metrics, recorded, job_url, page, detection,
          profile, mappings, form, fill_runs, filled_fields, fill_log, flow, clicks,
          jobs, batch, job_log, sleeps, browser, csv, snapshot,
          review_queue, review_call>>

----------------------------------------------------------------------------
(* Bounds *)

MaxAttempts == 3        \* results recorded in one optimizer session
MaxProbes == 2          \* selectors of a page that match or raise (the rest find nothing)
MaxElements == 2        \* input elements of a page
MaxFillRuns == 2        \* calls of _fill_form_fields on one page
MaxJobs == 2            \* jobs of one batch
MaxReviews == 2         \* rows of the manual-review queue
MaxRows == 2            \* data rows of a CSV file
MaxSaves == 2           \* calls of save_optimization_data
MaxSavedAttempts == 1   \* results recorded in a session that saves snapshots

----------------------------------------------------------------------------
(* Python helpers *)

RECURSIVE Fact(_)
Fact(n) == IF n <= 1 THEN 1 ELSE n * Fact(n - 1)

AvgScale == Fact(MaxAttempts)

PyStr(s) == [t |-> "str", v |-> s]
PyNone == [t |-> "None", v |-> ""]
PyMissing == [t |-> "missing", v |-> ""]

\* dict.get(key, default): the default only replaces a missing key
DictGet(value, default) == IF value.t = "missing" THEN default ELSE value

\* truth value of a str-or-None
Truthy(value) == value.t = "str" /\ value.v # ""

UpperCase == "ABCDEFGHIJKLMNOPQRSTUVWXYZ"
LowerCase == "abcdefghijklmnopqrstuvwxyz"

\* the lower-case letter of each upper-case letter
LowerOf ==
    [c \in {SubSeq(UpperCase, i, i) : i \in 1..Len(UpperCase)} |->
        LET i == CHOOSE j \in 1..Len(UpperCase) : SubSeq(UpperCase, j, j) = c
        IN  SubSeq(LowerCase, i, i)]

\* str.lower() of a one-character string
LowerChar(c) == IF c \in DOMAIN LowerOf THEN LowerOf[c] ELSE c

\* str.lower()
RECURSIVE Lower(_)
Lower(s) ==
    IF Len(s) = 0 THEN ""
    ELSE LowerChar(SubSeq(s, 1, 1)) \o Lower(SubSeq(s, 2, Len(s)))

\* the Python test `sub in s` on strings
Contains(s, sub) ==
    \E i \in 1..(Len(s) - Len(sub) + 1) : SubSeq(s, i, i + Len(sub) - 1) = sub

----------------------------------------------------------------------------
(* Pattern catalog: form field mappings *)

\* the keys of each vendor's mapping, in declaration order
FieldNames == <<"first_name", "last_name", "email", "phone", "resume", "cover_letter">>

\* A selector candidate, kept with its parts:
\*   AttrHas(a, x) is  input[a*="x"],  AttrIs(a, x) is  input[a="x"],  ById(x) is  #x.
\* The attribute data-automation-id is the field automation_id.
AttrHas(attr, val) == [tag |-> "input", attr |-> attr, op |-> "*=", val |-> val]
AttrIs(attr, val) == [tag |-> "input", attr |-> attr, op |-> "=", val |-> val]
ById(val) == [tag |-> "", attr |-> "id", op |-> "=", val |-> val]

form_field_mappings ==
    [workday |->
        [first_name |-> <<AttrHas("automation_id", "firstName"), AttrHas("name", "firstName")>>,
         last_name |-> <<AttrHas("automation_id", "lastName"), AttrHas("name", "lastName")>>,
         email |-> <<AttrHas("automation_id", "email"), AttrIs("type", "email")>>,
         phone |-> <<AttrHas("automation_id", "phone"), AttrIs("type", "tel")>>,
         resume |-> <<AttrHas("automation_id", "resume"), AttrIs("type", "file")>>,
         cover_letter |-> <<AttrHas("automation_id", "coverLetter")>>],
     greenhouse |->
        [first_name |-> <<AttrHas("name", "first_name"), ById("first_name")>>,
         last_name |-> <<AttrHas("name", "last_name"), ById("last_name")>>,
         email |-> <<AttrHas("name", "email"), ById("email")>>,
         phone |-> <<AttrHas("name", "phone"), ById("phone")>>,
         resume |-> <<AttrHas("name", "resume"), AttrIs("type", "file")>>,
         cover_letter |-> <<AttrHas("name", "cover_letter")>>],
     generic |->
        [first_name |-> <<AttrHas("name", "first"), ById("firstName"), ById("first_name")>>,
         last_name |-> <<AttrHas("name", "last"), ById("lastName"), ById("last_name")>>,
         email |-> <<AttrIs("type", "email"), ById("email"), AttrHas("name", "email")>>,
         phone |-> <<AttrIs("type", "tel"), ById("phone"), AttrHas("name", "phone")>>,
         resume |-> <<AttrIs("type", "file"), AttrHas("name", "resume")>>,
         cover_letter |-> <<AttrHas("name", "cover"), AttrHas("name", "letter")>>]]

\* len(self.form_field_mappings['generic'])
GenericFieldCount == Cardinality(DOMAIN form_field_mappings.generic)

----------------------------------------------------------------------------
(* Pattern catalog: ATS detection patterns, in declaration order *)

AtsNames == <<"workday", "greenhouse", "lever", "bamboohr">>

ats_patterns ==
    [workday |->
        [url_patterns |-> <<"workday.com", "myworkday.com", "wd1.myworkdayjobs.com">>,
         dom_selectors |-> <<"[data-automation-id]", ".css-1hwfws3", ".workday">>,
         text_indicators |-> <<"workday", "powered by workday">>,
         form_patterns |-> <<"input[data-automation-id]">>],
     greenhouse |->
        [url_patterns |-> <<"greenhouse.io", "boards.greenhouse.io">>,
         dom_selectors |-> <<".application-form", ".greenhouse-form">>,
         text_indicators |-> <<"greenhouse", "powered by greenhouse">>,
         form_patterns |-> <<"input[name*=\"application\"]">>],
     lever |->
        [url_patterns |-> <<"lever.co", "jobs.lever.co">>,
         dom_selectors |-> <<".application-form", ".lever-form">>,
         text_indicators |-> <<"lever", "powered by lever">>,
         form_patterns |-> <<"input[name*=\"lever\"]">>],
     bamboohr |->
        [url_patterns |-> <<"bamboohr.com", "bamboohr.co">>,
         dom_selectors |-> <<".bamboo-form", ".application-container">>,
         text_indicators |-> <<"bamboohr", "bamboo hr">>,
         form_patterns |-> <<"input[name*=\"bamboo\"]">>]]

Range(seq) == {seq[i] : i \in DOMAIN seq}

\* the next/continue buttons of _handle_workday_specifics, in probing order
next_buttons ==
    <<"button[data-automation-id*=\"next\"]", "button[data-automation-id*=\"continue\"]",
      "button:has-text(\"Next\")", "button:has-text(\"Continue\")">>

\* every selector the detector hands to query_selector_all
ProbeSelectors ==
    UNION {Range(ats_patterns[a].dom_selectors) \cup Range(ats_patterns[a].form_patterns)
           : a \in Range(AtsNames)}

----------------------------------------------------------------------------
(* Metrics *)

ApplicationMetrics ==
    [total_attempts |-> 0,
     successful_applications |-> 0,
     failed_applications |-> 0,
     manual_reviews_required |-> 0,
     average_application_time |-> 0,
     ats_detection_accuracy |-> 0,
     form_prefill_success_rate |-> 0]

\* result.get('status', 'unknown')
ResultStatus(result) == IF result.status = "missing" THEN "unknown" ELSE result.status

\* new_avg = (old_avg * (n - 1) + value) / n, all averages scaled by AvgScale
RunningAverage(old_avg, n, value) == (old_avg * (n - 1) + value * AvgScale) \div n

\* the counters of _update_application_metrics
UpdatedCounters(m, result) ==
    LET status == ResultStatus(result)
        m1 == [m EXCEPT !.total_attempts = @ + 1]
    IN  IF status = "applied"
            THEN [m1 EXCEPT !.successful_applications = @ + 1]
        ELSE IF status = "failed"
            THEN [m1 EXCEPT !.failed_applications = @ + 1]
        ELSE IF status = "manual_review"
            THEN [m1 EXCEPT !.manual_reviews_required = @ + 1]
        ELSE m1

\* the running averages of _update_application_metrics; m already holds the
\* incremented total_attempts
UpdatedAverages(m, result) ==
    LET n == m.total_attempts
        duration == result.application_duration
        confidence == result.ats_confidence
        fields_filled == result.fields_filled
        m1 == IF duration > 0
                  THEN [m EXCEPT !.average_application_time =
                                     RunningAverage(@, n, duration)]
                  ELSE m
        m2 == IF confidence > 0
                  THEN [m1 EXCEPT !.ats_detection_accuracy =
                                      RunningAverage(@, n, confidence)]
                  ELSE m1
    IN  IF fields_filled # {}
            THEN [m2 EXCEPT !.form_prefill_success_rate =
                                RunningAverage(@, n, Cardinality(fields_filled))]
            ELSE m2

UpdateApplicationMetrics(m, result) == UpdatedAverages(UpdatedCounters(m, result), result)

\* what the caller handed over, summed
Recorded(r, result) ==
    [n |-> r.n + 1,
     duration |-> r.duration + result.application_duration,
     confidence |-> r.confidence + result.ats_confidence,
     prefill |-> r.prefill + Cardinality(result.fields_filled)]

NoRecord == [n |-> 0, duration |-> 0, confidence |-> 0, prefill |-> 0]

\* save_optimization_data without its try/except
SaveUnguarded(m, file, fault) ==
    [outcome |-> IF fault = "none" THEN "return" ELSE "raise",
     metrics |-> m,
     file |-> IF fault = "none" THEN "written"
              ELSE IF fault = "dump" THEN "partial"
              ELSE file]

\* save_optimization_data(): how the call ends, the metrics it leaves and the
\* state of the snapshot file.  fault names the step that raises: "mkdir",
\* "open" (the file is not touched), "dump" (the file is opened for writing
\* and left incomplete) or "none"
save_optimization_data(m, file, fault) ==
    [outcome |-> "return",
     metrics |-> m,
     file |-> IF fault = "none" THEN "written"
              ELSE IF fault = "dump" THEN "partial"
              ELSE file]

SaveFaults == {"none", "mkdir", "open", "dump"}

NoSnapshot == [saves |-> 0, outcome |-> "none", fault |-> "none", file |-> "absent"]

----------------------------------------------------------------------------
(* ATS Detector *)

Returned(ats_name, confidence) ==
    [outcome |-> "return", ats_name |-> ats_name, confidence |-> confidence]
Raised == [outcome |-> "raise", ats_name |-> "", confidence |-> 0]
NotCalled == [outcome |-> "none", ats_name |-> "", confidence |-> 0]

\* safe_execute(fn, default_return=...): the value of fn(), the default when fn raises
safe_execute(value, default_return) ==
    IF value.t = "raise" THEN default_return ELSE value

\* with_retry(...): the decorated call; a call that returns is returned as it is
with_retry(result) == result

\* any(url_pattern in job_url.lower() for url_pattern in patterns['url_patterns'])
UrlMatches(ats_name, lowered_url) ==
    \E i \in DOMAIN ats_patterns[ats_name].url_patterns :
        Contains(lowered_url, ats_patterns[ats_name].url_patterns[i])

\* the URL loop: the first vendor, in declaration order from position i, one of
\* whose URL substrings is in the lower-cased URL; "" when there is none
RECURSIVE UrlDetect(_, _)
UrlDetect(lowered_url, i) ==
    IF i > Len(AtsNames) THEN ""
    ELSE IF UrlMatches(AtsNames[i], lowered_url) THEN AtsNames[i]
    ELSE UrlDetect(lowered_url, i + 1)

\* a probe whose raise is taken for a match
ProbeHitsOrRaises(pg, selector) == pg.probes[selector] # "none"

\* `elements = page.query_selector_all(selector); if elements:` inside try/except
ProbeHits(pg, selector) == pg.probes[selector] = "some"

\* the selectors of a list, from position i, that find an element
RECURSIVE CountHits(_, _, _)
CountHits(pg, selectors, i) ==
    IF i > Len(selectors) THEN 0
    ELSE (IF ProbeHits(pg, selectors[i]) THEN 1 ELSE 0) + CountHits(pg, selectors, i + 1)

\* `indicator.lower() in page_content.lower()`, counted over a list from position i
RECURSIVE CountSaid(_, _, _)
CountSaid(lowered_content, indicators, i) ==
    IF i > Len(indicators) THEN 0
    ELSE (IF Contains(lowered_content, Lower(indicators[i])) THEN 1 ELSE 0)
         + CountSaid(lowered_content, indicators, i + 1)

\* the confidence one vendor accumulates on the page
VendorConfidence(pg, lowered_content, ats_name) ==
    LET patterns == ats_patterns[ats_name]
    IN  3 * CountHits(pg, patterns.dom_selectors, 1)
        + 2 * CountSaid(lowered_content, patterns.text_indicators, 1)
        + 2 * CountHits(pg, patterns.form_patterns, 1)

\* a DOM loop that searches the vendor with the highest confidence
DomDetectBest(pg, lowered_content, i) ==
    IF \A k \in i..Len(AtsNames) : VendorConfidence(pg, lowered_content, AtsNames[k]) < 6
        THEN Returned("generic", 3)
    ELSE LET best == CHOOSE k \in i..Len(AtsNames) :
                        \A o \in i..Len(AtsNames) :
                            \/ VendorConfidence(pg, lowered_content, AtsNames[o])
                                    < VendorConfidence(pg, lowered_content, AtsNames[k])
                            \/ /\ VendorConfidence(pg, lowered_content, AtsNames[o])
                                    = VendorConfidence(pg, lowered_content, AtsNames[k])
                               /\ k <= o
         IN  Returned(AtsNames[best], VendorConfidence(pg, lowered_content, AtsNames[best]))

\* the DOM loop: the first vendor from position i whose confidence reaches 0.6,
\* generic with 0.3 when none does
RECURSIVE DomDetect(_, _, _)
DomDetect(pg, lowered_content, i) ==
    IF i > Len(AtsNames) THEN Returned("generic", 3)
    ELSE LET confidence == VendorConfidence(pg, lowered_content, AtsNames[i])
         IN  IF confidence >= 6 THEN Returned(AtsNames[i], confidence)
             ELSE DomDetect(pg, lowered_content, i + 1)

\* the try block with the URL compared as it is written, not lower-cased
DetectBodyCaseSensitive(pg, url) ==
    IF url.t # "str" THEN Raised
    ELSE LET by_url == UrlDetect(url.v, 1)
         IN  IF by_url # "" THEN Returned(by_url, 9)
             ELSE DomDetect(pg, Lower(safe_execute(pg.content, PyStr("")).v), 1)

\* the body of the try block of detect_ats_system
DetectBody(pg, url) ==
    IF url.t # "str" THEN Raised                \* None has no lower()
    ELSE LET by_url == UrlDetect(Lower(url.v), 1)
         IN  IF by_url # "" THEN Returned(by_url, 9)
             ELSE DomDetect(pg, Lower(safe_execute(pg.content, PyStr("")).v), 1)

\* detect_ats_system without its `except Exception`
DetectUnguarded(pg, url) == with_retry(DetectBody(pg, url))

detect_ats_system(pg, url) ==
    LET body == DetectBody(pg, url)
    IN  with_retry(IF body.outcome = "raise" THEN Returned("generic", 1) ELSE body)

----------------------------------------------------------------------------
(* Field Filler *)

\* does the element match the selector
Matches(element, selector) ==
    /\ selector.tag \in {"", element.tag}
    /\ IF selector.op = "*="
           THEN Contains(element[selector.attr], selector.val)
           ELSE element[selector.attr] = selector.val

\* page.query_selector(selector): the first matching element in document order
\* (its position), 0 for None, -1 when the call raises
query_selector(pg, selector) ==
    IF pg.detached THEN -1
    ELSE IF \E e \in DOMAIN pg.elements : Matches(pg.elements[e], selector)
        THEN CHOOSE e \in DOMAIN pg.elements :
                /\ Matches(pg.elements[e], selector)
                /\ \A d \in 1..(e - 1) : ~Matches(pg.elements[d], selector)
    ELSE 0

\* element.input_value(): the value, or a raise on an element that has none to read
input_value(pg, frm, e) ==
    IF pg.elements[e].mode = "unreadable" THEN [t |-> "raise", v |-> ""] ELSE PyStr(frm[e])

\* the test before element.fill(): the value read, "" standing in for a failed read
ReadsEmpty(pg, frm, e) == ~Truthy(safe_execute(input_value(pg, frm, e), PyStr("")))

\* `return False` after the last candidate
NotFilled(frm, log) == [success |-> FALSE, form |-> frm, log |-> log]

\* _try_fill_field from candidate i on: (success, the form, the fill() calls)
RECURSIVE TryFillField(_, _, _, _, _, _)
TryFillField(pg, frm, log, selectors, value, i) ==
    IF i > Len(selectors) THEN NotFilled(frm, log)
    ELSE LET e == query_selector(pg, selectors[i])
         IN  IF e = -1 THEN TryFillField(pg, frm, log, selectors, value, i + 1)
             ELSE IF e = 0 THEN TryFillField(pg, frm, log, selectors, value, i + 1)
             ELSE IF ~ReadsEmpty(pg, frm, e)
                 THEN TryFillField(pg, frm, log, selectors, value, i + 1)
             ELSE LET call == [element |-> e, before |-> frm[e], value |-> value,
                               selector |-> selectors[i]]
                  IN  IF pg.elements[e].mode = "readonly"     \* fill() raises
                          THEN TryFillField(pg, frm, Append(log, call),
                                            selectors, value, i + 1)
                          ELSE [success |-> TRUE,
                                form |-> [frm EXCEPT ![e] = value],
                                log |-> Append(log, call)]

DefaultEmail == PyStr("Nirajan.tech@gmail.com")

\* a profile_data that has an entry for the resume as well
ProfileDataWithResume(prof) ==
    [first_name |-> DictGet(prof.first_name, PyStr("")),
     last_name |-> DictGet(prof.last_name, PyStr("")),
     email |-> DictGet(prof.email, DefaultEmail),
     phone |-> DictGet(prof.phone, PyStr("")),
     resume |-> PyStr("resume.pdf")]

\* profile_data of _fill_form_fields
ProfileData(prof) ==
    [first_name |-> DictGet(prof.first_name, PyStr("")),
     last_name |-> DictGet(prof.last_name, PyStr("")),
     email |-> DictGet(prof.email, DefaultEmail),
     phone |-> DictGet(prof.phone, PyStr(""))]

\* the loop of _fill_form_fields from field i on
RECURSIVE FillLoop(_, _, _, _, _, _, _)
FillLoop(pg, frm, log, profile_data, mapping, filled, i) ==
    IF i > Len(FieldNames) THEN [filled |-> filled, form |-> frm, log |-> log]
    ELSE LET field_name == FieldNames[i]
         IN  IF field_name \in DOMAIN profile_data /\ Truthy(profile_data[field_name])
                 THEN LET value == profile_data[field_name].v
                          try == TryFillField(pg, frm, log, mapping[field_name], value, 1)
                      IN  FillLoop(pg, try.form, try.log, profile_data, mapping,
                                   IF try.success THEN filled \cup {<<field_name, value>>}
                                                  ELSE filled,
                                   i + 1)
                 ELSE FillLoop(pg, frm, log, profile_data, mapping, filled, i + 1)

\* _fill_form_fields(page, profile, mappings): how it ends, the field -> value
\* pairs it returns, the form it leaves, the fill() calls it made
fill_form_fields(pg, frm, prof, mapping) ==
    IF ~prof.is_dict                             \* None has no get()
        THEN [outcome |-> "raise", filled |-> {}, form |-> frm, log |-> <<>>]
        ELSE LET done == FillLoop(pg, frm, <<>>, ProfileData(prof), mapping, {}, 1)
             IN  [outcome |-> "return", filled |-> done.filled,
                  form |-> done.form, log |-> done.log]

Profile(first_name, last_name, email, phone) ==
    [is_dict |-> TRUE, first_name |-> first_name, last_name |-> last_name,
     email |-> email, phone |-> phone]

NoneProfile ==
    [is_dict |-> FALSE, first_name |-> PyMissing, last_name |-> PyMissing,
     email |-> PyMissing, phone |-> PyMissing]

Profiles ==
    {Profile(PyStr("Ada"), PyStr("Lovelace"), PyStr("ada@example.org"), PyStr("555")),
     Profile(PyStr("Ada"), PyStr(""), PyStr(""), PyNone),
     Profile(PyMissing, PyMissing, PyMissing, PyMissing),
     NoneProfile}

Input(name, id, type, automation_id) ==
    [tag |-> "input", name |-> name, id |-> id, type |-> type,
     automation_id |-> automation_id]

\* the inputs a page is made of
ElementKinds ==
    {Input("first_name", "first_name", "text", ""),
     Input("", "firstName", "text", "firstName"),
     Input("email", "email", "email", "emailAddress"),
     Input("first_last_name", "", "text", ""),
     Input("resume", "", "file", "resume")}

\* how an element stands when the Field Filler arrives: its value, and whether
\* input_value() and fill() work on it
ElementStates ==
    {[value |-> "", mode |-> "ok"],
     [value |-> "typed", mode |-> "ok"],
     [value |-> "typed", mode |-> "unreadable"],
     [value |-> "", mode |-> "readonly"]}

WithMode(kind, mode) ==
    [tag |-> kind.tag, name |-> kind.name, id |-> kind.id, type |-> kind.type,
     automation_id |-> kind.automation_id, mode |-> mode]

NoProbes == [s \in ProbeSelectors |-> "none"]
NoButtons == [b \in Range(next_buttons) |-> "none"]

\* a page of n elements and the values they hold
FormsOf(n) ==
    {[page |-> [content |-> PyStr(""), probes |-> NoProbes, detached |-> FALSE,
                buttons |-> NoButtons,
                elements |-> [e \in 1..n |-> WithMode(kinds[e], states[e].mode)]],
      form |-> [e \in 1..n |-> states[e].value]]
     : kinds \in [1..n -> ElementKinds], states \in [1..n -> ElementStates]}

DetachedPage ==
    [content |-> [t |-> "raise", v |-> ""], probes |-> [s \in ProbeSelectors |-> "raise"],
     detached |-> TRUE, buttons |-> [b \in Range(next_buttons) |-> "raise"],
     elements |-> <<>>]

Forms(max) ==
    UNION {FormsOf(n) : n \in 0..max}
    \cup {[page |-> DetachedPage, form |-> <<>>]}

MappingNames == {"workday", "greenhouse", "generic"}

NoFill == [outcome |-> "none", filled |-> {}]

----------------------------------------------------------------------------
(* Strategy Dispatcher *)

\* the strategies table: the vendors that have a strategy of their own
strategies == {"workday", "greenhouse", "lever", "bamboohr", "generic"}

\* the mapping each strategy hands to the Field Filler
\* (lever and bamboohr: form_field_mappings.get(vendor, form_field_mappings['generic']))
StrategyMapping(strategy) ==
    IF strategy \in DOMAIN form_field_mappings THEN strategy ELSE "generic"

\* the loop of _handle_workday_specifics from selector i on: the selectors whose
\* button received click().  A button is "none" (no such element), "hidden",
\* "visible", "raise" (the query raises), "stuck" (visible, click() raises) or
\* "unsettled" (visible, click() works, page.wait_for_timeout raises after it)
RECURSIVE handle_workday_specifics(_, _)
handle_workday_specifics(pg, i) ==
    IF i > Len(next_buttons) THEN <<>>
    ELSE LET button == pg.buttons[next_buttons[i]]
         IN  IF button = "visible" THEN <<next_buttons[i]>>
             ELSE IF button \in {"stuck", "unsettled"}
                 THEN <<next_buttons[i]>> \o handle_workday_specifics(pg, i + 1)
             ELSE handle_workday_specifics(pg, i + 1)

NoneTypeError == "'NoneType' object has no attribute 'get'"

\* a strategy that asks for a manual review when it filled no field
StrategyOutcomeByFields(strategy, pg, frm, fault, run) ==
    IF fault # ""
        THEN [outcome |-> "raise", error |-> fault, status |-> "", strategy |-> strategy,
              fields_filled |-> {}, form |-> frm, log |-> <<>>, clicks |-> <<>>]
    ELSE IF run.outcome = "raise"
        THEN [outcome |-> "return", error |-> NoneTypeError, status |-> "failed",
              strategy |-> strategy, fields_filled |-> {}, form |-> run.form,
              log |-> run.log, clicks |-> <<>>]
    ELSE [outcome |-> "return", error |-> "",
          status |-> IF run.filled = {} THEN "manual_review" ELSE "applied",
          strategy |-> strategy, fields_filled |-> run.filled, form |-> run.form,
          log |-> run.log,
          clicks |-> IF strategy = "workday" THEN handle_workday_specifics(pg, 1)
                                             ELSE <<>>]

\* what a strategy hands back once its field filling has ended as run says;
\* fault is the text of an exception raised by the call outside the strategy's
\* own try block ("" when there is none)
StrategyOutcome(strategy, pg, frm, fault, run) ==
    IF fault # ""
        THEN [outcome |-> "raise", error |-> fault, status |-> "", strategy |-> strategy,
              fields_filled |-> {}, form |-> frm, log |-> <<>>, clicks |-> <<>>]
    ELSE IF run.outcome = "raise"
        THEN [outcome |-> "return", error |-> NoneTypeError, status |-> "failed",
              strategy |-> strategy, fields_filled |-> {}, form |-> run.form,
              log |-> run.log, clicks |-> <<>>]
    ELSE [outcome |-> "return", error |-> "", status |-> "applied",
          strategy |-> strategy, fields_filled |-> run.filled, form |-> run.form,
          log |-> run.log,
          clicks |-> IF strategy = "workday" THEN handle_workday_specifics(pg, 1)
                                             ELSE <<>>]

\* _apply_<vendor>_strategy(job, profile, page, confidence)
apply_strategy(strategy, pg, frm, prof, confidence, fault) ==
    StrategyOutcome(strategy, pg, frm, fault,
                    fill_form_fields(pg, frm, prof,
                                     form_field_mappings[StrategyMapping(strategy)]))

\* the result dictionary as the metrics updater reads it
AsRecorded(result) ==
    [status |-> result.status,
     application_duration |-> result.application_duration,
     ats_confidence |-> result.ats_confidence,
     fields_filled |-> {pair[1] : pair \in result.fields_filled}]

\* the result of optimize_application_flow when the strategy returned
StrategyResult(applied, det, duration) ==
    [outcome |-> "return", status |-> applied.status, error |-> applied.error,
     strategy |-> applied.strategy, fields_filled |-> applied.fields_filled,
     ats_system |-> det.ats_name, ats_confidence |-> det.confidence,
     application_duration |-> duration]

\* the result built by the `except Exception` of optimize_application_flow
HandlerResult(applied, det, duration) ==
    [outcome |-> "return", status |-> "failed", error |-> applied.error,
     strategy |-> "", fields_filled |-> {},
     ats_system |-> det.ats_name, ats_confidence |-> det.confidence,
     application_duration |-> duration]

\* the strategy call without the `except Exception` around it
DispatchedUnhandled(m, applied, det, duration) ==
    IF applied.outcome = "return"
        THEN LET result == StrategyResult(applied, det, duration)
             IN  [result |-> result,
                  metrics |-> UpdateApplicationMetrics(m, AsRecorded(result)),
                  updated |-> TRUE]
        ELSE [result |-> [HandlerResult(applied, det, duration) EXCEPT !.outcome = "raise"],
              metrics |-> m, updated |-> FALSE]

\* the try/except of optimize_application_flow around the strategy call:
\* the result returned, the metrics left, whether the updater was called
Dispatched(m, applied, det, duration) ==
    IF applied.outcome = "return"
        THEN LET result == StrategyResult(applied, det, duration)
             IN  [result |-> result,
                  metrics |-> UpdateApplicationMetrics(m, AsRecorded(result)),
                  updated |-> TRUE]
        ELSE [result |-> HandlerResult(applied, det, duration),
              metrics |-> m, updated |-> FALSE]

\* a lookup that hands out the generic strategy for every vendor
StrategyAlwaysGeneric(ats_name) == "generic"

\* strategy_func = self.strategies.get(ats_system, self.strategies['generic'])
StrategyFor(ats_name) == IF ats_name \in strategies THEN ats_name ELSE "generic"

\* what one call leaves behind: its result, the metrics, the form and the
\* calls made on the page, given what the strategy call did
FlowOutcome(done, invoked, applied) ==
    [result |-> with_retry(done.result), metrics |-> done.metrics,
     updated |-> done.updated, invoked |-> invoked,
     form |-> applied.form, log |-> applied.log, clicks |-> applied.clicks]

\* optimize_application_flow from the strategy call on
RunStrategy(m, det, duration, applied) ==
    FlowOutcome(Dispatched(m, applied, det, duration), StrategyFor(det.ats_name), applied)

\* optimize_application_flow once the ATS is detected
AfterDetection(m, pg, frm, prof, fault, duration, det) ==
    RunStrategy(m, det, duration,
                apply_strategy(StrategyFor(det.ats_name), pg, frm, prof, det.confidence, fault))

\* optimize_application_flow(job, profile, page)
optimize_application_flow(m, pg, frm, url, prof, fault, duration) ==
    AfterDetection(m, pg, frm, prof, fault, duration,
                   detect_ats_system(pg, DictGet(url, PyStr(""))))

NoFlow == [outcome |-> "none", calls |-> 0]

----------------------------------------------------------------------------
(* Batch Runner *)

max_retries == 2
RetryDelay == 5
delay_seconds == 30

\* a job passes the skip test as soon as it has a url key
HasUrlKey(url) == url.t # "missing"

\* `if not job.get("url")` is false
HasUrl(url) == Truthy(url)

\* the wrapper without its look at the URL
DetectWithoutUrlFallback(url, ats_choice, detected) ==
    IF ats_choice # "auto" THEN ats_choice
    ELSE IF detected \in {"", "unknown", "raise"} THEN "manual"
    ELSE detected

\* detect(url) of the ats package: a vendor name, "unknown", or a raise ("raise")
\* _detect_ats_with_fallback(url, ats_choice)
detect_ats_with_fallback(url, ats_choice, detected) ==
    LET url_lower == Lower(url.v)
    IN  IF ats_choice # "auto" THEN ats_choice
        ELSE IF detected = "raise" THEN "manual"
        ELSE IF detected \notin {"", "unknown"} THEN detected
        ELSE IF Contains(url_lower, "workday") THEN "workday"
        ELSE IF Contains(url_lower, "icims") THEN "icims"
        ELSE IF Contains(url_lower, "greenhouse") THEN "greenhouse"
        ELSE IF Contains(url_lower, "bamboohr") THEN "bamboohr"
        ELSE IF Contains(url_lower, "lever") THEN "lever"
        ELSE "manual"

\* the wrapper without its fallback: a get_submitter that raises gives None
GetSubmitterWithoutFallback(ats_name, vendor, manual) ==
    IF vendor = "ok" THEN [submitter |-> ats_name, calls |-> 1]
    ELSE [submitter |-> "", calls |-> 1]

\* how a call of get_submitter ends: it hands back a submitter or it raises
AcquisitionOutcomes == {"ok", "raise"}

\* _get_submitter_with_fallback(ats_name, ctx): the submitter handed back ("" for
\* None) and the get_submitter calls made.  vendor and manual say how
\* get_submitter ends for the detected vendor and for "manual"
get_submitter_with_fallback(ats_name, vendor, manual) ==
    IF vendor = "ok" THEN [submitter |-> ats_name, calls |-> 1]
    ELSE IF manual = "ok" THEN [submitter |-> "manual", calls |-> 2]
    ELSE [submitter |-> "", calls |-> 2]

\* signal.alarm(timeout), where SIGALRM exists: an alarm is pending
ArmAlarm(has_alarm) == has_alarm

\* the alarm when the try block is left: a submit() that outlasts the alarm
\* makes it go off, which uses it up; `signal.alarm(0)` follows a submit()
\* that returns; a submit() that raises leaves the alarm as it is
AlarmAfterTry(pending, submit, has_alarm) ==
    IF submit.t = "hang" THEN FALSE
    ELSE IF submit.t = "raise" THEN pending
    ELSE IF has_alarm THEN FALSE
    ELSE pending

\* a wrapper without the finally clause
AlarmLeftAsItIs(pending, has_alarm) == pending

\* finally: signal.alarm(0), where SIGALRM exists
ClearAlarm(pending, has_alarm) == IF has_alarm THEN FALSE ELSE pending

\* _submit_application_with_timeout: whether an alarm is pending when it is left
alarm_after_submit(submit, has_alarm) ==
    ClearAlarm(AlarmAfterTry(ArmAlarm(has_alarm), submit, has_alarm), has_alarm)

\* the wrapper without its `except TimeoutError`: the alarm's exception is
\* answered by `except Exception`
SubmitWithoutTimeoutClause(submit, has_alarm) ==
    IF submit.t = "hang"
        THEN (IF has_alarm THEN PyStr("Failed: Application submission timed out")
                           ELSE submit)
    ELSE IF submit.t = "raise" THEN PyStr("Failed: " \o submit.v)
    ELSE submit

\* _submit_application_with_timeout: the status string returned, "hang" when the
\* call never returns.  submit says how submitter.submit() ends: a status
\* (t = "str" or "None"), a raise (t = "raise", v the text) or t = "hang";
\* has_alarm is hasattr(signal, 'SIGALRM')
submit_application_with_timeout(submit, has_alarm) ==
    IF submit.t = "hang" THEN (IF has_alarm THEN PyStr("Timeout") ELSE submit)
    ELSE IF submit.t = "raise" THEN PyStr("Failed: " \o submit.v)
    ELSE submit

\* a test that lets every rejected attempt count the job as failed
FailsAtOnce(retry_count) == TRUE

\* `if retry_count >= max_retries` of the else branch: the rejected attempt
\* was the last one the job is allowed
LastAttempt(retry_count) == retry_count >= max_retries

\* a while test that admits one more attempt
WhileTestLoose(retry_count, application_successful) ==
    retry_count <= max_retries + 1 /\ ~application_successful

\* the while test with `retry_count < max_retries`
WhileTestStrict(retry_count, application_successful) ==
    retry_count < max_retries /\ ~application_successful

\* `while retry_count <= max_retries and not application_successful`
WhileTest(retry_count, application_successful) ==
    retry_count <= max_retries /\ ~application_successful

\* a status counts as applied only when it contains "Applied"
IsAppliedOnly(status) ==
    Truthy(status) /\ Contains(status.v, "Applied")

\* `status and ("Applied" in status or "Success" in status)`
IsApplied(status) ==
    Truthy(status) /\ (Contains(status.v, "Applied") \/ Contains(status.v, "Success"))

\* `status and ("Manual" in status or "Review" in status)`
IsManual(status) ==
    Truthy(status) /\ (Contains(status.v, "Manual") \/ Contains(status.v, "Review"))

ZeroStats ==
    [applied |-> 0, failed |-> 0, manual |-> 0, total |-> 0, retried |-> 0, skipped |-> 0]

NoJobLog ==
    [attempts |-> 0, documents |-> 0, detections |-> 0, acquisitions |-> 0,
     submissions |-> 0, skipped |-> 0, applied |-> 0, manual |-> 0, failed |-> 0,
     retried |-> 0]

Bump(log, i, field) == [log EXCEPT ![i][field] = @ + 1]

NoBrowser == [launched |-> 0, opened |-> 0, closed |-> 0, quit |-> 0]

NotStarted ==
    [pc |-> "idle", i |-> 1, retry_count |-> 0, application_successful |-> FALSE,
     stats |-> ZeroStats, ats_choice |-> "auto", detected_ats |-> "", submitter |-> "",
     status |-> PyNone, alarm_pending |-> FALSE, outcome |-> "none"]

\* apply_to_jobs is entered: the empty list returns at once, otherwise the
\* stats are set up and the browser context is opened
BatchStart ==
    /\ batch.pc = "idle"
    /\ IF Len(jobs) = 0
           THEN /\ batch' = [batch EXCEPT !.pc = "done", !.outcome = "return"]
                /\ UNCHANGED browser
           ELSE /\ batch' = [batch EXCEPT !.pc = "job", !.stats.total = Len(jobs)]
                /\ browser' = [browser EXCEPT !.launched = @ + 1, !.opened = @ + 1]
    /\ UNCHANGED <<jobs, job_log, sleeps>>

\* the head of the for loop: the next job is taken, and skipped when it has no url
BatchNextJob ==
    /\ batch.pc = "job"
    /\ batch.i <= Len(jobs)
    /\ IF ~HasUrl(jobs[batch.i])
           THEN /\ batch' = [batch EXCEPT !.stats.skipped = @ + 1, !.i = @ + 1]
                /\ job_log' = Bump(job_log, batch.i, "skipped")
           ELSE /\ batch' = [batch EXCEPT !.pc = "attempt", !.retry_count = 0,
                                          !.application_successful = FALSE]
                /\ UNCHANGED job_log
    /\ UNCHANGED <<jobs, sleeps, browser>>

\* how detect(url) ends
DetectOutcomes == {"workday", "unknown", "", "raise"}

\* how submitter.submit() ends
SubmitOutcomes ==
    {PyStr("Applied"), PyStr("Success"), PyStr("Manual"), PyStr("Needs Review"),
     PyStr("Applied - Manual Review"), PyStr("Failed"), PyNone,
     [t |-> "raise", v |-> "boom"], [t |-> "hang", v |-> ""]}

\* the top of the while body for job batch.i: a retry is counted and waited
\* for, then the documents are generated; documents says whether a resume
\* path comes back.  (status, detected_ats and submitter are assigned anew
\* before they are read again: the steps that leave them dead put them back
\* to their idle values.)
BatchGenerateDocuments ==
    \E documents \in BOOLEAN :
        /\ batch.pc = "attempt"
        /\ sleeps' = IF batch.retry_count > 0 THEN Append(sleeps, RetryDelay) ELSE sleeps
        /\ job_log' = [Bump(Bump(job_log, batch.i, "attempts"), batch.i, "documents")
                           EXCEPT ![batch.i].retried =
                               IF batch.retry_count > 0 THEN @ + 1 ELSE @]
        /\ batch' = [batch EXCEPT
                        !.stats.retried = IF batch.retry_count > 0 THEN @ + 1 ELSE @,
                        !.status = PyNone,
                        \* `if not pdf_cv: break`
                        !.pc = IF documents THEN "detect" ELSE "after"]
        /\ UNCHANGED <<jobs, browser>>

\* detected_ats = self._detect_ats_with_fallback(job["url"], ats_choice)
BatchDetectAts ==
    \E detected \in DetectOutcomes :
        /\ batch.pc = "detect"
        /\ batch' = [batch EXCEPT
                        !.pc = "submitter",
                        !.detected_ats =
                            detect_ats_with_fallback(jobs[batch.i], batch.ats_choice, detected)]
        /\ job_log' = Bump(job_log, batch.i, "detections")
        /\ UNCHANGED <<jobs, sleeps, browser>>

\* submitter = self._get_submitter_with_fallback(detected_ats, ctx)
BatchGetSubmitter ==
    \E vendor \in AcquisitionOutcomes, manual \in AcquisitionOutcomes :
        LET got == get_submitter_with_fallback(batch.detected_ats, vendor, manual)
        IN  /\ batch.pc = "submitter"
            /\ batch' = [batch EXCEPT
                            !.submitter = got.submitter,
                            \* `if not submitter: break`
                            !.pc = IF got.submitter = "" THEN "after" ELSE "submit"]
            /\ job_log' = [job_log EXCEPT ![batch.i].acquisitions = @ + 1]
            /\ UNCHANGED <<jobs, sleeps, browser>>

\* the submission, the classification of its status and the result log; an
\* unsuccessful attempt goes on to line 354 and the while test
BatchSubmit ==
    \E submit \in SubmitOutcomes, has_alarm \in BOOLEAN :
        LET i == batch.i
            rc == batch.retry_count
            status == submit_application_with_timeout(submit, has_alarm)
            applied == IsApplied(status)
            manually == ~applied /\ IsManual(status)
            terminal == IF applied THEN "applied"
                        ELSE IF manually THEN "manual"
                        ELSE IF LastAttempt(rc) THEN "failed"
                        ELSE ""
            counted == IF terminal = "" THEN batch.stats
                       ELSE [batch.stats EXCEPT ![terminal] = @ + 1]
            logged == IF terminal = "" THEN Bump(job_log, i, "submissions")
                      ELSE Bump(Bump(job_log, i, "submissions"), i, terminal)
        IN  /\ batch.pc = "submit"
            /\ IF status.t = "hang"
                   THEN /\ batch' = [batch EXCEPT !.pc = "hung", !.status = status,
                                                  !.alarm_pending = alarm_after_submit(submit, has_alarm),
                                                  !.detected_ats = "", !.submitter = ""]
                        /\ job_log' = Bump(job_log, i, "submissions")
               ELSE IF applied \/ manually
                   THEN /\ batch' = [batch EXCEPT !.pc = "bookkeeping", !.status = status,
                                                  !.alarm_pending = alarm_after_submit(submit, has_alarm),
                                                  !.detected_ats = "", !.submitter = "",
                                                  !.stats = counted,
                                                  !.application_successful = TRUE]
                        /\ job_log' = logged
               ELSE /\ batch' = [batch EXCEPT
                                    !.pc = IF WhileTest(rc + 1, FALSE) THEN "attempt" ELSE "after",
                                    !.status = status,
                                    !.alarm_pending = alarm_after_submit(submit, has_alarm),
                                    !.detected_ats = "", !.submitter = "",
                                    !.stats = counted,
                                    !.retry_count = rc + 1]
                    /\ job_log' = logged
            /\ UNCHANGED <<jobs, sleeps, browser>>

\* after a success the job is marked done (hash_job, self.session,
\* save_session) and the loop is left; when that raises, the except clause
\* runs, and then line 354
BatchMarkDone ==
    \E raises \in BOOLEAN :
        LET rc == batch.retry_count
        IN  /\ batch.pc = "bookkeeping"
            /\ IF ~raises
                   THEN /\ batch' = [batch EXCEPT !.pc = "after"]
                        /\ UNCHANGED job_log
               ELSE IF rc + 1 > max_retries
                   THEN /\ batch' = [batch EXCEPT !.pc = "after", !.retry_count = rc + 1,
                                                  !.stats.failed = @ + 1]
                        /\ job_log' = Bump(job_log, batch.i, "failed")
               ELSE /\ batch' = [batch EXCEPT !.pc = "after", !.retry_count = rc + 2]
                    /\ UNCHANGED job_log
            /\ UNCHANGED <<jobs, sleeps, browser>>

\* the same delay after every job
FlatDelay(application_successful) == delay_seconds

\* actual_delay = delay_seconds * (2 if not application_successful else 1)
ActualDelay(application_successful) ==
    delay_seconds * (IF application_successful THEN 1 ELSE 2)

\* after the while loop: the delay before the next job, if there is one.
\* The locals of the while loop are not read again before they are assigned
\* anew; they are put back to their idle values here.
BatchAfterJob ==
    /\ batch.pc = "after"
    /\ sleeps' = IF batch.i < Len(jobs)
                     THEN Append(sleeps, ActualDelay(batch.application_successful))
                     ELSE sleeps
    /\ batch' = [batch EXCEPT !.pc = "job", !.i = @ + 1,
                              !.retry_count = 0, !.application_successful = FALSE,
                              !.detected_ats = "", !.submitter = "", !.status = PyNone]
    /\ UNCHANGED <<jobs, job_log, browser>>

\* where apply_to_jobs stands while it is inside the for loop
InLoop == {"job", "attempt", "detect", "submitter", "submit", "bookkeeping", "after"}

\* the for loop is over
BatchLoopDone ==
    /\ batch.pc = "job"
    /\ batch.i > Len(jobs)
    /\ batch' = [batch EXCEPT !.pc = "cleanup"]
    /\ UNCHANGED <<jobs, job_log, sleeps, browser>>

\* an exception leaves the for loop: one raised outside the try of the while
\* body, or one that `except Exception` does not catch (KeyboardInterrupt)
BatchInterrupt ==
    /\ batch.pc \in InLoop
    /\ batch' = [batch EXCEPT !.pc = "cleanup", !.outcome = "raise"]
    /\ UNCHANGED <<jobs, job_log, sleeps, browser>>

\* the context and the browser are closed after the loop only, not in a
\* finally clause: an exception goes on to the caller at once
BatchFinishNoFinally ==
    /\ batch.pc = "cleanup"
    /\ browser' = IF batch.outcome = "raise" THEN browser
                   ELSE [browser EXCEPT !.closed = @ + 1, !.quit = @ + 1]
    /\ batch' = [batch EXCEPT !.pc = "done",
                              !.outcome = IF @ = "raise" THEN "raise" ELSE "return"]
    /\ UNCHANGED <<jobs, job_log, sleeps>>

\* the finally clause closes the context and the browser; then the stats are
\* returned, or the exception goes on to the caller
BatchFinish ==
    /\ batch.pc = "cleanup"
    /\ browser' = [browser EXCEPT !.closed = @ + 1, !.quit = @ + 1]
    /\ batch' = [batch EXCEPT !.pc = "done",
                              !.outcome = IF @ = "raise" THEN "raise" ELSE "return"]
    /\ UNCHANGED <<jobs, job_log, sleeps>>

\* str.strip(): the text without the blanks at its ends
RECURSIVE Strip(_)
Strip(text) ==
    IF text = "" THEN ""
    ELSE IF SubSeq(text, 1, 1) = " " THEN Strip(SubSeq(text, 2, Len(text)))
    ELSE IF SubSeq(text, Len(text), Len(text)) = " "
        THEN Strip(SubSeq(text, 1, Len(text) - 1))
    ELSE text

\* csv.DictReader: the value of a row's dict under a column name; a column
\* the header does not name is no key, a cell the row is too short to reach
\* is None (restval)
DictRow(header, row, column) ==
    IF column \notin Range(header) THEN PyMissing
    ELSE LET k == CHOOSE c \in DOMAIN header : header[c] = column
         IN  IF k > Len(row) THEN PyNone ELSE PyStr(row[k])

\* value.strip() on what row.get() returned: None has no strip()
StripCell(cell) ==
    IF cell.t = "str" THEN PyStr(Strip(cell.v)) ELSE [t |-> "raise", v |-> ""]

\* the loop of read_csv_jobs from row i on, jobs holding the urls appended so
\* far: one job for every row whose url cell is not blank, the url stripped;
\* title stands for the columns read with a default (title, company,
\* location, summary)
RECURSIVE ReadRows(_, _, _)
ReadRows(file, found, i) ==
    IF i > Len(file.rows) THEN [outcome |-> "return", jobs |-> found]
    ELSE IF StripCell(DictGet(DictRow(file.header, file.rows[i], "url"),
                              PyStr(""))).t = "raise"
        THEN [outcome |-> "raise", jobs |-> <<>>]
    ELSE IF ~Truthy(StripCell(DictRow(file.header, file.rows[i], "url")))
        THEN ReadRows(file, found, i + 1)
    ELSE IF StripCell(DictGet(DictRow(file.header, file.rows[i], "title"),
                              PyStr("Unknown Position"))).t = "raise"
        THEN [outcome |-> "raise", jobs |-> <<>>]
    ELSE ReadRows(file,
                  Append(found, StripCell(DictRow(file.header, file.rows[i], "url"))),
                  i + 1)

\* read_csv_jobs(csv_path) for a file that can be opened: [] without a url
\* column, [] when the loop raises, the jobs otherwise
read_csv_jobs(file) ==
    IF "url" \notin Range(file.header) THEN <<>>
    ELSE IF ReadRows(file, <<>>, 1).outcome = "raise" THEN <<>>
    ELSE ReadRows(file, <<>>, 1).jobs

NoCsv == [header |-> <<>>, rows |-> <<>>, read |-> FALSE]

\* applicator.read_csv_jobs(csv_path) in apply_from_csv
ReadCsvJobs ==
    /\ ~csv.read
    /\ csv' = [csv EXCEPT !.read = TRUE]
    /\ jobs' = read_csv_jobs(csv)
    /\ job_log' = [j \in DOMAIN jobs' |-> NoJobLog]
    /\ UNCHANGED <<batch, sleeps, browser>>

\* apply_from_csv goes on to apply_to_jobs only with a non-empty job list
\* (`if not jobs: return 1`)
JobsLoaded == csv.read /\ jobs # <<>>

CsvUrlCells == {"", " ", "http://a.com/job", " http://a.com/job "}

\* the header lines: none (an empty file), and url and title in both orders
CsvHeaders == {<<>>, <<"url">>, <<"title">>, <<"url", "title">>, <<"title", "url">>}

\* the data rows under a header: at least one cell, at most one per column
CsvRows(header) ==
    UNION {{row \in [1..n -> CsvUrlCells \cup {"Dev"}] :
                \A k \in 1..n : row[k] \in (IF header[k] = "url" THEN CsvUrlCells
                                                                ELSE {"Dev"})} :
           n \in 1..Len(header)}

CsvFilesWith(header) ==
    {[header |-> header, rows |-> rows, read |-> FALSE] :
        rows \in UNION {[1..n -> CsvRows(header)] : n \in 0..MaxRows}}

\* the files with the url column alone
CsvFiles == CsvFilesWith(<<"url">>)

JobUrlValues == {PyMissing, PyNone, PyStr(""), PyStr("http://a.com/job")}

JobLists == UNION {[1..n -> JobUrlValues] : n \in 0..MaxJobs}

----------------------------------------------------------------------------
(* Inputs *)

JobUrls ==
    {PyNone,
     PyStr(""),
     PyStr("https://example.com/careers/42"),
     PyStr("https://boards.greenhouse.io/acme/123"),
     PyStr("https://ACME.WD1.MyWorkdayJobs.com/ext"),
     PyStr("https://jobs.lever.co/acme"),
     PyStr("https://acme.bamboohr.com/jobs"),
     PyStr("https://boards.greenhouse.io/acme?src=myworkday.com")}

PageContents ==
    {PyStr(""),
     PyStr("Powered by Workday"),
     PyStr("powered by Greenhouse and Lever"),
     PyStr("Bamboo HR careers"),
     [t |-> "raise", v |-> ""]}

\* what query_selector_all does for each selector: at most MaxProbes selectors
\* match or raise; and the two extreme pages
ProbeOutcomes ==
    UNION {{[s \in ProbeSelectors |-> IF s \in S THEN f[s] ELSE "none"]
            : f \in [S -> {"some", "raise"}]}
           : S \in {T \in SUBSET ProbeSelectors : Cardinality(T) <= MaxProbes}}
    \cup {[s \in ProbeSelectors |-> "some"], [s \in ProbeSelectors |-> "raise"]}

Pages == [content : PageContents, probes : ProbeOutcomes, detached : {FALSE},
          buttons : {NoButtons}, elements : {<<>>}]

BlankPage ==
    [content |-> PyStr(""), probes |-> NoProbes, detached |-> FALSE,
     buttons |-> NoButtons, elements |-> <<>>]

BatchIdle ==
    /\ csv = NoCsv
    /\ jobs = <<>>
    /\ batch = NotStarted
    /\ job_log = <<>>
    /\ sleeps = <<>>
    /\ browser = NoBrowser

FillIdle ==
    /\ profile = NoneProfile
    /\ mappings = "generic"
    /\ form = <<>>
    /\ fill_runs = 0
    /\ filled_fields = NoFill
    /\ fill_log = <<>>
    /\ flow = NoFlow
    /\ clicks = <<>>
    /\ BatchIdle

\* the url entry of the job handed to optimize_application_flow
FlowUrls ==
    {PyMissing,
     PyNone,
     PyStr("https://example.com/careers/42"),
     PyStr("https://boards.greenhouse.io/acme/123"),
     PyStr("https://jobs.lever.co/acme"),
     PyStr("https://acme.bamboohr.com/jobs")}

WorkdayPage ==
    [content |-> PyStr("Powered by Workday"),
     probes |-> [s \in ProbeSelectors |->
                    IF s \in {"[data-automation-id]", "input[data-automation-id]"}
                        THEN "some" ELSE "none"],
     detached |-> FALSE,
     buttons |-> [b \in Range(next_buttons) |->
                    IF b = next_buttons[1] THEN "hidden"
                    ELSE IF b = next_buttons[2] THEN "stuck"
                    ELSE "visible"],
     elements |-> <<WithMode(Input("", "firstName", "text", "firstName"), "ok"),
                    WithMode(Input("email", "email", "email", "emailAddress"), "ok")>>]

\* the Workday page with the given next/continue buttons, in probing order
WorkdayWith(buttons) ==
    [WorkdayPage EXCEPT !.buttons = [b \in Range(next_buttons) |->
        buttons[CHOOSE i \in DOMAIN next_buttons : next_buttons[i] = b]]]

PlainPage ==
    [content |-> PyStr(""), probes |-> NoProbes, detached |-> FALSE, buttons |-> NoButtons,
     elements |-> <<WithMode(Input("first_name", "first_name", "text", ""), "unreadable"),
                    WithMode(Input("email", "email", "email", "emailAddress"), "ok")>>]

\* a page with a file input for the resume and an email input, both empty
UploadPage ==
    [content |-> PyStr(""), probes |-> NoProbes, detached |-> FALSE, buttons |-> NoButtons,
     elements |-> <<WithMode(Input("resume", "", "file", "resume"), "ok"),
                    WithMode(Input("email", "email", "email", "emailAddress"), "ok")>>]

FlowForms ==
    {[page |-> DetachedPage, form |-> <<>>],
     [page |-> WorkdayPage, form |-> <<"", "">>],
     [page |-> WorkdayWith(<<"none", "visible", "visible", "raise">>), form |-> <<"", "">>],
     [page |-> WorkdayWith(<<"unsettled", "hidden", "visible", "visible">>), form |-> <<"", "">>],
     [page |-> PlainPage, form |-> <<"typed", "">>],
     [page |-> UploadPage, form |-> <<"", "">>]}

\* the text of an exception the strategy call raises outside its try block
StrategyFaults == {"", "strategy call failed"}

\* time.time() - start_time
FlowDurations == {0, 10}

Statuses == {"applied", "failed", "manual_review", "timeout", "missing"}
Durations == {0, 10, 20, 30}
Confidences == {0, 9}
FilledSets == {{}, {"first_name", "email"}}

Results ==
    [status : Statuses, application_duration : Durations,
     ats_confidence : Confidences, fields_filled : FilledSets]

----------------------------------------------------------------------------
(* The manual-review queue (ManualReviewManager) *)

\* self.profile_name
profile_name == "default"

\* priority: 1 = low, 2 = medium, 3 = high, 4 = urgent
Priorities == 1..4

NoCall == [op |-> "none", id |-> 0, found |-> "none", fault |-> FALSE, returned |-> FALSE]

\* the row db.add_to_manual_review_queue stores
ReviewItem(priority) ==
    [status |-> "pending", priority |-> priority, resolution |-> "", reviewer |-> ""]

\* add_review_item: the row is appended, its id is returned
add_review_item(queue, priority) ==
    [queue |-> Append(queue, ReviewItem(priority)), returned |-> Len(queue) + 1]

\* get_pending_reviews: db.get_manual_review_queue('pending'), as ids
get_pending_reviews(queue) == {id \in DOMAIN queue : queue[id].status = "pending"}

\* the UPDATE without its WHERE clause
UpdateEveryRow(queue, review_id, status, resolution, reviewer) ==
    [k \in DOMAIN queue |->
        [queue[k] EXCEPT !.status = status, !.resolution = resolution,
                         !.reviewer = reviewer]]

\* UPDATE manual_review_queue SET status = ..., resolution = ?, reviewer = ?
\* WHERE id = ?
UpdateWhereId(queue, review_id, status, resolution, reviewer) ==
    [k \in DOMAIN queue |->
        IF k = review_id
            THEN [queue[k] EXCEPT !.status = status, !.resolution = resolution,
                                  !.reviewer = reviewer]
            ELSE queue[k]]

\* a resolve that asks for a pending row
ResolvePendingOnly(queue, review_id, resolution, reviewer, fault) ==
    IF fault \/ review_id \notin get_pending_reviews(queue)
        THEN [queue |-> queue, returned |-> FALSE]
    ELSE [queue |-> UpdateWhereId(queue, review_id, "resolved", resolution,
                                  IF Truthy(reviewer) THEN reviewer.v ELSE profile_name),
          returned |-> TRUE]

\* resolve_review_item(review_id, resolution, reviewer).  fault: sqlite3 raises
\* (connect, execute or commit); the transaction is rolled back and False
\* is returned
resolve_review_item(queue, review_id, resolution, reviewer, fault) ==
    IF fault THEN [queue |-> queue, returned |-> FALSE]
    ELSE [queue |-> UpdateWhereId(queue, review_id, "resolved", resolution,
                                  IF Truthy(reviewer) THEN reviewer.v ELSE profile_name),
          returned |-> TRUE]

\* skip_review_item(review_id, reason)
skip_review_item(queue, review_id, reason, fault) ==
    IF fault THEN [queue |-> queue, returned |-> FALSE]
    ELSE [queue |-> UpdateWhereId(queue, review_id, "skipped", "Skipped: " \o reason,
                                  profile_name),
          returned |-> TRUE]

\* the status of row review_id, "none" when there is no such row
FoundStatus(queue, review_id) ==
    IF review_id \in DOMAIN queue THEN queue[review_id].status ELSE "none"

\* the ids the manager is asked about: those of the rows and one more
ReviewIds == 1..(MaxReviews + 1)

AddReviewItem ==
    \E priority \in Priorities :
        /\ Len(review_queue) < MaxReviews
        /\ \E added \in {add_review_item(review_queue, priority)} :
            /\ review_queue' = added.queue
            /\ review_call' = [op |-> "add", id |-> added.returned, found |-> "none",
                               fault |-> FALSE, returned |-> TRUE]

ResolveReviewItem ==
    \E review_id \in ReviewIds, reviewer \in {PyNone, PyStr("alice")}, fault \in BOOLEAN :
        \E done \in {resolve_review_item(review_queue, review_id, "fixed", reviewer, fault)} :
            /\ review_queue' = done.queue
            /\ review_call' = [op |-> "resolve", id |-> review_id,
                               found |-> FoundStatus(review_queue, review_id),
                               fault |-> fault, returned |-> done.returned]

SkipReviewItem ==
    \E review_id \in ReviewIds, fault \in BOOLEAN :
        \E done \in {skip_review_item(review_queue, review_id, "duplicate", fault)} :
            /\ review_queue' = done.queue
            /\ review_call' = [op |-> "skip", id |-> review_id,
                               found |-> FoundStatus(review_queue, review_id),
                               fault |-> fault, returned |-> done.returned]

----------------------------------------------------------------------------
(* Specifications *)

InitMetrics ==
    /\ metrics = ApplicationMetrics
    /\ recorded = NoRecord
    /\ snapshot = NoSnapshot
    /\ review_queue = <<>>
    /\ review_call = NoCall
    /\ job_url = PyNone
    /\ page = BlankPage
    /\ detection = NotCalled
    /\ FillIdle

\* one call of _update_application_metrics(result)
RecordResult ==
    \E result \in Results :
        /\ metrics.total_attempts < MaxAttempts
        /\ metrics' = UpdateApplicationMetrics(metrics, result)
        /\ recorded' = Recorded(recorded, result)
        /\ UNCHANGED <<detectVars, fillVars, flowVars, batchVars, csvVars, saveVars, reviewVars>>

NextMetrics == RecordResult

SpecMetrics == InitMetrics /\ [][NextMetrics]_vars

SaveOptimizationData ==
    \E fault \in SaveFaults :
        /\ snapshot.saves < MaxSaves
        /\ \E saved \in {save_optimization_data(metrics, snapshot.file, fault)} :
            /\ snapshot' = [saves |-> snapshot.saves + 1, outcome |-> saved.outcome,
                            fault |-> fault, file |-> saved.file]
            /\ metrics' = saved.metrics
        /\ UNCHANGED <<recorded, detectVars, fillVars, flowVars, batchVars, csvVars, reviewVars>>

NextSave ==
    \/ metrics.total_attempts < MaxSavedAttempts /\ RecordResult
    \/ SaveOptimizationData

SpecSave == InitMetrics /\ [][NextSave]_vars

InitDetect ==
    /\ job_url \in JobUrls
    /\ page \in Pages
    /\ detection = NotCalled
    /\ metrics = ApplicationMetrics
    /\ recorded = NoRecord
    /\ snapshot = NoSnapshot
    /\ review_queue = <<>>
    /\ review_call = NoCall
    /\ FillIdle

\* one call of detect_ats_system(page, job_url)
DetectAts ==
    /\ detection = NotCalled
    /\ detection' = detect_ats_system(page, job_url)
    /\ UNCHANGED <<job_url, page, metricsVars, fillVars, flowVars, batchVars, csvVars, saveVars, reviewVars>>

NextDetect == DetectAts

SpecDetect == InitDetect /\ [][NextDetect]_vars

InitFill ==
    /\ \E f \in Forms(MaxElements) : page = f.page /\ form = f.form
    /\ profile \in Profiles
    /\ mappings \in MappingNames
    /\ fill_runs = 0
    /\ filled_fields = NoFill
    /\ fill_log = <<>>
    /\ flow = NoFlow
    /\ clicks = <<>>
    /\ BatchIdle
    /\ job_url = PyNone
    /\ detection = NotCalled
    /\ metrics = ApplicationMetrics
    /\ recorded = NoRecord
    /\ snapshot = NoSnapshot
    /\ review_queue = <<>>
    /\ review_call = NoCall

\* one call of _fill_form_fields(page, profile, mappings)
FillFormFields ==
    /\ fill_runs < MaxFillRuns
    /\ LET run == fill_form_fields(page, form, profile, form_field_mappings[mappings])
       IN  /\ form' = run.form
           /\ filled_fields' = [outcome |-> run.outcome, filled |-> run.filled]
           /\ fill_log' = fill_log \o run.log
    /\ fill_runs' = fill_runs + 1
    /\ UNCHANGED <<profile, mappings, detectVars, metricsVars, flowVars, batchVars, csvVars, saveVars, reviewVars>>

NextFill == FillFormFields

SpecFill == InitFill /\ [][NextFill]_vars

InitFlow ==
    /\ \E f \in FlowForms : page = f.page /\ form = f.form
    /\ job_url \in FlowUrls
    /\ profile \in Profiles
    /\ mappings = "generic"
    /\ fill_runs = 0
    /\ filled_fields = NoFill
    /\ fill_log = <<>>
    /\ flow = NoFlow
    /\ clicks = <<>>
    /\ BatchIdle
    /\ detection = NotCalled
    /\ metrics = ApplicationMetrics
    /\ recorded = NoRecord
    /\ snapshot = NoSnapshot
    /\ review_queue = <<>>
    /\ review_call = NoCall

\* one call of optimize_application_flow(job, profile, page)
OptimizeApplicationFlow ==
    \E fault \in StrategyFaults, duration \in FlowDurations :
        /\ flow.calls < MaxAttempts
        /\ \E call \in {optimize_application_flow(metrics, page, form, job_url, profile,
                                                    fault, duration)} :
               /\ flow' = call.result @@ [calls |-> flow.calls + 1, fault |-> fault,
                                          invoked |-> call.invoked]
               /\ metrics' = call.metrics
               /\ recorded' = IF call.updated
                                  THEN Recorded(recorded, AsRecorded(call.result))
                                  ELSE recorded
               /\ form' = call.form
               /\ fill_log' = fill_log \o call.log
               /\ clicks' = clicks \o call.clicks
        /\ UNCHANGED <<job_url, page, detection, profile, mappings, fill_runs,
                       filled_fields, batchVars, csvVars, saveVars, reviewVars>>

NextFlow == OptimizeApplicationFlow

SpecFlow == InitFlow /\ [][NextFlow]_vars

InitBatch ==
    /\ csv = NoCsv
    /\ jobs \in JobLists
    /\ batch \in {[NotStarted EXCEPT !.ats_choice = c] : c \in {"auto", "lever"}}
    /\ job_log = [j \in DOMAIN jobs |-> NoJobLog]
    /\ sleeps = <<>>
    /\ browser = NoBrowser
    /\ job_url = PyNone
    /\ page = BlankPage
    /\ detection = NotCalled
    /\ metrics = ApplicationMetrics
    /\ recorded = NoRecord
    /\ snapshot = NoSnapshot
    /\ review_queue = <<>>
    /\ review_call = NoCall
    /\ profile = NoneProfile
    /\ mappings = "generic"
    /\ form = <<>>
    /\ fill_runs = 0
    /\ filled_fields = NoFill
    /\ fill_log = <<>>
    /\ flow = NoFlow
    /\ clicks = <<>>

NextBatch ==
    \/ BatchStart /\ UNCHANGED <<metricsVars, detectVars, fillVars, flowVars, csvVars, saveVars, reviewVars>>
    \/ BatchNextJob /\ UNCHANGED <<metricsVars, detectVars, fillVars, flowVars, csvVars, saveVars, reviewVars>>
    \/ BatchGenerateDocuments /\ UNCHANGED <<metricsVars, detectVars, fillVars, flowVars, csvVars, saveVars, reviewVars>>
    \/ BatchDetectAts /\ UNCHANGED <<metricsVars, detectVars, fillVars, flowVars, csvVars, saveVars, reviewVars>>
    \/ BatchGetSubmitter /\ UNCHANGED <<metricsVars, detectVars, fillVars, flowVars, csvVars, saveVars, reviewVars>>
    \/ BatchSubmit /\ UNCHANGED <<metricsVars, detectVars, fillVars, flowVars, csvVars, saveVars, reviewVars>>
    \/ BatchMarkDone /\ UNCHANGED <<metricsVars, detectVars, fillVars, flowVars, csvVars, saveVars, reviewVars>>
    \/ BatchAfterJob /\ UNCHANGED <<metricsVars, detectVars, fillVars, flowVars, csvVars, saveVars, reviewVars>>
    \/ BatchLoopDone /\ UNCHANGED <<metricsVars, detectVars, fillVars, flowVars, csvVars, saveVars, reviewVars>>
    \/ BatchInterrupt /\ UNCHANGED <<metricsVars, detectVars, fillVars, flowVars, csvVars, saveVars, reviewVars>>
    \/ BatchFinish /\ UNCHANGED <<metricsVars, detectVars, fillVars, flowVars, csvVars, saveVars, reviewVars>>

\* job URLs that name no vendor, one vendor, or two
VendorUrls ==
    {PyStr("https://example.com/careers/42"),
     PyStr("https://ACME.WD1.MyWorkdayJobs.com/ext"),
     PyStr("https://careers-acme.icims.com/jobs/7"),
     PyStr("https://boards.greenhouse.io/acme/123"),
     PyStr("https://acme.bamboohr.com/jobs"),
     PyStr("https://jobs.lever.co/acme"),
     PyStr("https://jobs.lever.co/acme?via=boards.greenhouse.io")}

\* a batch of one job with any of these URLs
InitVendorUrls ==
    /\ csv = NoCsv
    /\ jobs \in {<<url>> : url \in VendorUrls}
    /\ batch \in {[NotStarted EXCEPT !.ats_choice = c] : c \in {"auto", "lever"}}
    /\ job_log = [j \in DOMAIN jobs |-> NoJobLog]
    /\ sleeps = <<>>
    /\ browser = NoBrowser
    /\ job_url = PyNone
    /\ page = BlankPage
    /\ detection = NotCalled
    /\ metrics = ApplicationMetrics
    /\ recorded = NoRecord
    /\ snapshot = NoSnapshot
    /\ review_queue = <<>>
    /\ review_call = NoCall
    /\ profile = NoneProfile
    /\ mappings = "generic"
    /\ form = <<>>
    /\ fill_runs = 0
    /\ filled_fields = NoFill
    /\ fill_log = <<>>
    /\ flow = NoFlow
    /\ clicks = <<>>

SpecBatch == InitBatch /\ [][NextBatch]_vars

SpecVendorUrls == InitVendorUrls /\ [][NextBatch]_vars

\* apply_to_jobs keeps running as long as it has a step to take
SpecBatchFair == SpecBatch /\ WF_vars(NextBatch)

InitCsv ==
    /\ csv \in CsvFiles
    /\ jobs = <<>>
    /\ batch \in {[NotStarted EXCEPT !.ats_choice = c] : c \in {"auto", "lever"}}
    /\ job_log = <<>>
    /\ sleeps = <<>>
    /\ browser = NoBrowser
    /\ job_url = PyNone
    /\ page = BlankPage
    /\ detection = NotCalled
    /\ metrics = ApplicationMetrics
    /\ recorded = NoRecord
    /\ snapshot = NoSnapshot
    /\ review_queue = <<>>
    /\ review_call = NoCall
    /\ profile = NoneProfile
    /\ mappings = "generic"
    /\ form = <<>>
    /\ fill_runs = 0
    /\ filled_fields = NoFill
    /\ fill_log = <<>>
    /\ flow = NoFlow
    /\ clicks = <<>>

NextCsv ==
    \/ ReadCsvJobs /\ UNCHANGED <<metricsVars, detectVars, fillVars, flowVars, saveVars, reviewVars>>
    \/ JobsLoaded /\ NextBatch

SpecCsv == InitCsv /\ [][NextCsv]_vars

\* read_csv_jobs alone, on files with every header
InitRead ==
    /\ csv \in UNION {CsvFilesWith(header) : header \in CsvHeaders}
    /\ jobs = <<>>
    /\ batch = NotStarted
    /\ job_log = <<>>
    /\ sleeps = <<>>
    /\ browser = NoBrowser
    /\ job_url = PyNone
    /\ page = BlankPage
    /\ detection = NotCalled
    /\ metrics = ApplicationMetrics
    /\ recorded = NoRecord
    /\ snapshot = NoSnapshot
    /\ review_queue = <<>>
    /\ review_call = NoCall
    /\ profile = NoneProfile
    /\ mappings = "generic"
    /\ form = <<>>
    /\ fill_runs = 0
    /\ filled_fields = NoFill
    /\ fill_log = <<>>
    /\ flow = NoFlow
    /\ clicks = <<>>

NextRead == ReadCsvJobs /\ UNCHANGED <<metricsVars, detectVars, fillVars, flowVars, saveVars, reviewVars>>

SpecRead == InitRead /\ [][NextRead]_vars

InitReview == InitMetrics

NextReview ==
    \/ AddReviewItem /\ UNCHANGED <<metricsVars, detectVars, fillVars, flowVars, batchVars, csvVars, saveVars>>
    \/ ResolveReviewItem /\ UNCHANGED <<metricsVars, detectVars, fillVars, flowVars, batchVars, csvVars, saveVars>>
    \/ SkipReviewItem /\ UNCHANGED <<metricsVars, detectVars, fillVars, flowVars, batchVars, csvVars, saveVars>>

SpecReview == InitReview /\ [][NextReview]_vars

----------------------------------------------------------------------------
(* Claims about the metrics updater *)

\* C1: after every call of the metrics updater, total_attempts is the sum of
\* successful_applications, failed_applications and manual_reviews_required
\* (statuses applied, failed, manual_review, timeout or missing).
C1_TotalIsSumOfBuckets ==
    metrics.total_attempts =
        metrics.successful_applications + metrics.failed_applications
        + metrics.manual_reviews_required

\* C9: after n recorded results each running average is the arithmetic mean of
\* the n per-attempt values, attempts with value 0 or no filled field included.
C9_AveragesAreMeans ==
    /\ metrics.average_application_time * recorded.n = recorded.duration * AvgScale
    /\ metrics.ats_detection_accuracy * recorded.n = recorded.confidence * AvgScale
    /\ metrics.form_prefill_success_rate * recorded.n = recorded.prefill * AvgScale

----------------------------------------------------------------------------
(* Claims about the ATS detector *)

DetectCalled == detection.outcome # "none"

\* C2 as stated: whenever the lower-cased URL contains a URL substring of vendor
\* v, detection returns (v, 0.9), whatever the page does.
C2_EveryMatchingVendorReturned ==
    (DetectCalled /\ job_url.t = "str") =>
        \A i \in DOMAIN AtsNames :
            UrlMatches(AtsNames[i], Lower(job_url.v))
                => detection = Returned(AtsNames[i], 9)

\* C2 amended: detection returns (v, 0.9) for the first vendor v, in catalog
\* order, one of whose URL substrings is in the lower-cased URL, whatever the
\* page does; a vendor declared after another matching vendor is not returned.
C2_FirstMatchingVendorReturned ==
    (DetectCalled /\ job_url.t = "str") =>
        \A i \in DOMAIN AtsNames :
            ( /\ UrlMatches(AtsNames[i], Lower(job_url.v))
              /\ \A j \in 1..(i - 1) : ~UrlMatches(AtsNames[j], Lower(job_url.v)) )
                => detection = Returned(AtsNames[i], 9)

\* C2 witness: the greenhouse board URL on a page no operation of which is
\* usable gives (greenhouse, 0.9); and a URL naming two vendors was detected.
C2_Witness ==
    /\ DetectCalled
    /\ job_url = PyStr("https://boards.greenhouse.io/acme/123")
    /\ page.content.t = "raise"
    /\ \A s \in ProbeSelectors : page.probes[s] = "raise"
    /\ detection = Returned("greenhouse", 9)

\* no URL substring of any vendor is in the lower-cased URL
NoUrlMatch ==
    /\ job_url.t = "str"
    /\ \A i \in DOMAIN AtsNames : ~UrlMatches(AtsNames[i], Lower(job_url.v))

\* the page text the indicators are looked up in
LoweredContent == IF page.content.t = "str" THEN Lower(page.content.v) ELSE ""

\* the score of a vendor, in tenths: 3 per DOM selector that finds an element,
\* 2 per text indicator in the page text, 2 per form selector that finds one
Score(ats_name) ==
    3 * Cardinality({sel \in Range(ats_patterns[ats_name].dom_selectors) :
                        page.probes[sel] = "some"})
    + 2 * Cardinality({ind \in Range(ats_patterns[ats_name].text_indicators) :
                        Contains(LoweredContent, ind)})
    + 2 * Cardinality({sel \in Range(ats_patterns[ats_name].form_patterns) :
                        page.probes[sel] = "some"})

\* C22: when no URL substring matches, detection returns the first vendor in
\* catalog order (workday, greenhouse, lever, bamboohr) whose score is at least
\* 0.6, with that score, also when a later vendor scores higher; and
\* (generic, 0.3) when no vendor reaches 0.6.
C22_FirstVendorOverThreshold ==
    (DetectCalled /\ NoUrlMatch) =>
        /\ \A i \in DOMAIN AtsNames :
                ( /\ Score(AtsNames[i]) >= 6
                  /\ \A j \in 1..(i - 1) : Score(AtsNames[j]) < 6 )
                    => detection = Returned(AtsNames[i], Score(AtsNames[i]))
        /\ (\A i \in DOMAIN AtsNames : Score(AtsNames[i]) < 6)
                => detection = Returned("generic", 3)

\* C22 witness: workday was returned on a page where greenhouse, declared
\* after it, scores higher.
C22_Witness ==
    /\ DetectCalled
    /\ NoUrlMatch
    /\ detection.outcome = "return"
    /\ detection.ats_name = "workday"
    /\ Score("workday") >= 6
    /\ Score("greenhouse") > Score("workday")

\* C3: detect_ats_system never raises; it returns a pair whose vendor is one of
\* workday, greenhouse, lever, bamboohr, generic, also when probes raise.
C3_DetectNeverRaises ==
    DetectCalled =>
        /\ detection.outcome = "return"
        /\ detection.ats_name \in Range(AtsNames) \cup {"generic"}

\* C3 witness: a call on a page whose content() and some probe raise, and a
\* call with a URL that is no string, have both returned.
C3_Witness ==
    /\ DetectCalled
    /\ detection.outcome = "return"
    /\ \/ job_url = PyNone
       \/ /\ page.content.t = "raise"
          /\ \E s \in ProbeSelectors : page.probes[s] = "raise"
          /\ job_url = PyStr("https://example.com/careers/42")

\* the page with every raising probe replaced by a probe that finds nothing
Quiet(pg) ==
    [pg EXCEPT !.probes = [sel \in ProbeSelectors |->
                              IF pg.probes[sel] = "raise" THEN "none" ELSE pg.probes[sel]]]

\* C23: a probe that raises contributes no confidence and does not stop
\* detection: the result on a page where some probes raise is the result on
\* the page where those probes find nothing.
C23_RaisingProbeCountsAsNoMatch ==
    DetectCalled => detection = detect_ats_system(Quiet(page), job_url)

\* C23 witness: a vendor was detected from the page although a probe raised.
C23_Witness ==
    /\ DetectCalled
    /\ NoUrlMatch
    /\ \E sel \in ProbeSelectors : page.probes[sel] = "raise"
    /\ \E sel \in ProbeSelectors : page.probes[sel] = "some"
    /\ detection.outcome = "return"
    /\ detection.ats_name \in Range(AtsNames)

\* every operation of the page raises
PageUnavailable ==
    /\ page.content.t = "raise"
    /\ \A sel \in ProbeSelectors : page.probes[sel] = "raise"

\* C24: when the URL matches no vendor and every page operation raises,
\* detection returns (generic, 0.1).
C24_UnavailablePageGivesLowestConfidence ==
    (DetectCalled /\ NoUrlMatch /\ PageUnavailable) => detection = Returned("generic", 1)

\* C4: the confidence returned by detect_ats_system is in [0, 1].
C4_ConfidenceInUnitInterval ==
    DetectCalled => (detection.confidence >= 0 /\ detection.confidence <= 10)

----------------------------------------------------------------------------
(* Claims about the Field Filler *)

\* C5: fill() is invoked only on an element whose value was empty at that
\* moment, also when reading the element's current value fails.
C5_FillOnlyOnEmpty ==
    \A i \in DOMAIN fill_log : fill_log[i].before = ""

\* the fields the profile gives a value for
FieldsWithValue ==
    {f \in DOMAIN ProfileData(profile) : Truthy(ProfileData(profile)[f])}

\* the last run returned and filled every field the profile gives a value for
LastRunFilledAll ==
    /\ filled_fields.outcome = "return"
    /\ {pair[1] : pair \in filled_fields.filled} = FieldsWithValue

\* C6: field filling is idempotent: a run changes no element that already held
\* a value, and a second run with the same profile and mapping, after a first
\* run that filled every mapped field, leaves the form as the first run left it.
C6_FillIsIdempotent ==
    [][ (fill_runs' = fill_runs + 1) =>
            /\ \A e \in DOMAIN form : form[e] # "" => form'[e] = form[e]
            /\ (fill_runs >= 1 /\ LastRunFilledAll) => form' = form ]_vars

\* the fill() calls of the step being taken
NewFills == {fill_log'[k] : k \in (Len(fill_log) + 1)..Len(fill_log')}

\* the fill() calls among them that set their element, for field f
SetFor(f) ==
    {call \in NewFills :
        /\ call.selector \in Range(form_field_mappings[mappings][f])
        /\ page.elements[call.element].mode # "readonly"}

\* does some candidate selector of field f lead to an element that is empty
\* when the call starts
HasEmptyCandidate(f) ==
    \E k \in DOMAIN form_field_mappings[mappings][f] :
        LET e == query_selector(page, form_field_mappings[mappings][f][k])
        IN  e > 0 /\ form[e] = ""

\* C19: for a profile that is a mapping, _fill_form_fields returns, and its
\* result holds a field, with the value written, exactly when an element was
\* set for that field during the call; a field none of whose candidate
\* selectors leads to an existing empty element is absent from the result.
C19_ResultListsExactlyTheFilledFields ==
    [][ (fill_runs' = fill_runs + 1 /\ profile.is_dict) =>
            /\ filled_fields'.outcome = "return"
            /\ \A i \in DOMAIN FieldNames :
                LET f == FieldNames[i]
                IN  /\ \A pair \in filled_fields'.filled :
                        pair[1] = f =>
                            /\ \E call \in SetFor(f) : call.value = pair[2]
                            /\ HasEmptyCandidate(f)
                    /\ SetFor(f) # {} => \E pair \in filled_fields'.filled : pair[1] = f ]_vars

\* the positions in the log of the fill() calls of the step being taken
NewCalls == (Len(fill_log) + 1)..Len(fill_log')

\* did the fill() call at position k set its element
Sets(k) == page.elements[fill_log'[k].element].mode # "readonly"

\* was the call at position k made for field f through its n-th selector
IsFor(k, f, n) ==
    /\ n \in DOMAIN form_field_mappings[mappings][f]
    /\ fill_log'[k].selector = form_field_mappings[mappings][f][n]
    /\ fill_log'[k].value = ProfileData(profile)[f].v

\* the value element e holds when the call at position k is made
ValueAt(k, e) ==
    IF \E j \in NewCalls : j < k /\ Sets(j) /\ fill_log'[j].element = e
        THEN fill_log'[CHOOSE j \in NewCalls :
                          /\ j < k /\ Sets(j) /\ fill_log'[j].element = e
                          /\ \A i \in NewCalls :
                                (i < k /\ Sets(i) /\ fill_log'[i].element = e) => i <= j].value
        ELSE form[e]

\* at most one element is written per field, and no fill() follows it
AtMostOneWrite ==
    \A f \in {"first_name", "last_name", "email", "phone"} :
        \A k \in NewCalls : \A n \in 1..3 :
            (Sets(k) /\ IsFor(k, f, n)) =>
                \A j \in NewCalls : \A m \in 1..3 : (j # k /\ IsFor(j, f, m)) => j < k /\ ~Sets(j)

\* the element written held no value
WrittenWasEmpty == \A k \in NewCalls : Sets(k) => fill_log'[k].before = ""

\* no earlier selector of the field led to an existing empty element
EarliestCandidate ==
    \A f \in {"first_name", "last_name", "email", "phone"} :
        \A k \in NewCalls : \A n \in 1..3 :
            (Sets(k) /\ IsFor(k, f, n)) =>
                \A m \in 1..(n - 1) :
                    ~ ( /\ query_selector(page, form_field_mappings[mappings][f][m]) > 0
                        /\ ValueAt(k, query_selector(page, form_field_mappings[mappings][f][m])) = "" )

\* C25: for each field the selectors are tried in declared order and the
\* element written is the one of the first selector that leads to an existing
\* element that is empty at that moment; at most one element is written per
\* field per call and no selector is tried after it.
C25_FirstEmptyCandidateIsWritten ==
    [][ (fill_runs' = fill_runs + 1 /\ profile.is_dict) =>
            (AtMostOneWrite /\ WrittenWasEmpty /\ EarliestCandidate) ]_vars

\* the fields for which the profile holds no value, or an empty one
FieldsWithoutValue ==
    {f \in {"first_name", "last_name", "email", "phone"} : ~Truthy(profile[f])}

\* C20: for every field whose profile value is empty or missing, no element is
\* filled and the field is absent from the result.
C20_OnlyProfileValuesAreWritten ==
    [][ (fill_runs' = fill_runs + 1 /\ profile.is_dict) =>
            \A f \in FieldsWithoutValue :
                /\ \A call \in NewFills :
                        call.selector \notin Range(form_field_mappings[mappings][f])
                /\ \A pair \in filled_fields'.filled : pair[1] # f ]_vars

----------------------------------------------------------------------------
(* Claims about the Strategy Dispatcher *)

FlowCalled == flow.outcome # "none"

\* C7: optimize_application_flow never raises: when the strategy call raises, or
\* field filling raises inside the strategy, it returns a result with status
\* failed whose error field carries the exception text.
C7_DispatcherNeverRaises ==
    FlowCalled =>
        /\ flow.outcome = "return"
        /\ flow.fault # "" => (flow.status = "failed" /\ flow.error = flow.fault)
        /\ (flow.fault = "" /\ ~profile.is_dict)
               => (flow.status = "failed" /\ flow.error = NoneTypeError)

\* C7 witness: a call whose strategy raised has returned a failed result, with
\* the exception text as its error.
C7_Witness ==
    /\ FlowCalled
    /\ flow.fault = "strategy call failed"
    /\ flow.outcome = "return"
    /\ flow.status = "failed"
    /\ flow.error = "strategy call failed"

\* C8: every call of optimize_application_flow, on every return path, passes
\* its result through the metrics update: total_attempts grows by one.
C8_EveryResultIsRecorded ==
    [][ (flow.calls' = flow.calls + 1) =>
            metrics'.total_attempts = metrics.total_attempts + 1 ]_vars

\* what detection returns for the page and the job of the call
Detected == detect_ats_system(page, DictGet(job_url, PyStr("")))

\* C26: a call of optimize_application_flow invokes the strategy registered
\* for the vendor that detection returned, the generic strategy when the
\* vendor has none; the result a strategy returns is the one of that
\* strategy, and ats_system and ats_confidence of the result are the
\* detection result.
C26_StrategyOfDetectedVendor ==
    FlowCalled =>
        /\ flow.invoked =
                (IF Detected.ats_name \in {"workday", "greenhouse", "lever", "bamboohr", "generic"}
                    THEN Detected.ats_name ELSE "generic")
        /\ flow.fault = "" => flow.strategy = flow.invoked
        /\ flow.ats_system = Detected.ats_name
        /\ flow.ats_confidence = Detected.confidence

\* C26 witness: a call on the Workday page, detected from the page, ran the
\* workday strategy; its result names workday with confidence 0.9.
C26_Witness ==
    /\ FlowCalled
    /\ job_url = PyStr("https://example.com/careers/42")
    /\ page = WorkdayPage
    /\ flow.fault = ""
    /\ flow.invoked = "workday"
    /\ flow.strategy = "workday"
    /\ flow.ats_system = "workday"
    /\ flow.ats_confidence = 9

\* the selectors the field-mapping catalog declares for a vendor
DeclaredSelectors(vendor) ==
    IF vendor \in DOMAIN form_field_mappings
        THEN UNION {Range(form_field_mappings[vendor][f]) :
                        f \in DOMAIN form_field_mappings[vendor]}
        ELSE {}

\* C27: the strategy of a vendor fills the form through the selectors that
\* the field-mapping catalog declares for that vendor.
C27_StrategyUsesOwnVendorMapping ==
    [][ (flow.calls' = flow.calls + 1) =>
            \A k \in NewCalls : fill_log'[k].selector \in DeclaredSelectors(flow'.invoked) ]_vars

\* the click() calls of the step being taken
NewClicks == SubSeq(clicks', Len(clicks) + 1, Len(clicks'))

\* the first button, in probing order, that is found visible
FirstVisible ==
    next_buttons[CHOOSE i \in DOMAIN next_buttons :
        /\ page.buttons[next_buttons[i]] \in {"visible", "stuck", "unsettled"}
        /\ \A j \in 1..(i - 1) :
                page.buttons[next_buttons[j]] \notin {"visible", "stuck", "unsettled"}]

\* C28: one invocation of the Workday strategy clicks at most one
\* next/continue button, the first one found visible in the order of the
\* list, also when click() or the wait after it raises; and what happens in
\* this step leaves the status of the strategy's result as it is.
C28_AtMostOneNextButton ==
    [][ (flow.calls' = flow.calls + 1 /\ flow'.invoked = "workday") =>
            /\ Len(NewClicks) <= 1
            /\ NewClicks # <<>> => NewClicks[1] = FirstVisible
            /\ (flow'.fault = "" /\ profile.is_dict) => flow'.status = "applied" ]_vars

\* C38: the result of optimize_application_flow has status 'applied' exactly
\* when nothing was raised while the strategy ran, and 'failed' otherwise,
\* whatever was filled and whatever the page shows; it is never
\* 'manual_review' or 'timeout', and manual_reviews_required stays 0.
C38_AppliedUnlessTheStrategyRaised ==
    /\ [](metrics.manual_reviews_required = 0)
    /\ [][ flow'.calls = flow.calls + 1 =>
               /\ flow'.status \in {"applied", "failed"}
               /\ flow'.status = "applied" <=>
                      /\ flow'.fault = ""
                      /\ fill_form_fields(page, form, profile,
                              form_field_mappings[StrategyMapping(flow'.invoked)]).outcome
                             # "raise" ]_vars

\* a call that filled no field and came back 'applied'
C38_Witness ==
    /\ flow.calls > 0
    /\ flow.status = "applied"
    /\ flow.fields_filled = {}
    /\ metrics.total_attempts > 0
    /\ metrics.successful_applications = metrics.total_attempts

\* the fields _fill_form_fields has a value for
ProfileFields == {"first_name", "last_name", "email", "phone"}

\* the selectors a mapping lists for the resume and the cover letter
UploadSelectors ==
    UNION {Range(form_field_mappings[vendor][f]) :
               vendor \in DOMAIN form_field_mappings, f \in {"resume", "cover_letter"}}

\* C40: whatever the mapping and the profile, the fields reported as filled
\* are among first_name, last_name, email and phone, and no fill() is made
\* through a resume or cover_letter selector; hence at most 4 of the 6
\* fields of the generic mapping are filled in one attempt and
\* form_prefill_success_rate lies between 0 and 1.
C40_OnlyTheFourProfileFields ==
    /\ flow.calls > 0 =>
          /\ {pair[1] : pair \in flow.fields_filled} \subseteq ProfileFields
          /\ Cardinality(flow.fields_filled) * 6 <= 4 * GenericFieldCount
    /\ \A k \in DOMAIN fill_log :
          /\ fill_log[k].selector \notin UploadSelectors
          /\ page.elements[fill_log[k].element].type # "file"
    /\ metrics.form_prefill_success_rate >= 0
    /\ metrics.form_prefill_success_rate <= GenericFieldCount * AvgScale

\* on the page with a file input and an email input the email was filled and
\* the file input was left alone
C40_Witness ==
    /\ flow.calls > 0
    /\ page = UploadPage
    /\ {pair[1] : pair \in flow.fields_filled} = {"email"}
    /\ form[1] = ""
    /\ Len(fill_log) = 1
    /\ metrics.form_prefill_success_rate > 0

----------------------------------------------------------------------------
(* Claims about the batch runner *)

\* job j has been through the for loop
Processed(j) == j < batch.i

Urlless == {j \in DOMAIN jobs : jobs[j].t \in {"missing", "None"} \/ jobs[j].v = ""}

\* C10: every job of the batch whose url is absent or empty is counted as
\* skipped once it has been through the loop, and at no time is a document
\* generated, an ATS detected, a submitter acquired or a submission made for it.
C10_UrllessJobsAreSkipped ==
    /\ \A j \in Urlless :
        /\ job_log[j].attempts = 0
        /\ job_log[j].documents = 0
        /\ job_log[j].detections = 0
        /\ job_log[j].acquisitions = 0
        /\ job_log[j].submissions = 0
        /\ Processed(j) => job_log[j].skipped = 1
    /\ batch.stats.skipped = Cardinality({j \in Urlless : Processed(j)})

\* a finished batch in which a job with an empty url was skipped while another
\* job went as far as a submission
C10_Witness ==
    /\ batch.outcome = "return"
    /\ \E j \in DOMAIN jobs : jobs[j] = PyStr("") /\ job_log[j].skipped = 1
    /\ \E j \in DOMAIN jobs : job_log[j].submissions > 0
    /\ batch.stats.skipped = 1

\* C11: when apply_to_jobs returns, every job of the list is in exactly one
\* of the buckets: total = applied + manual + failed + skipped.
C11_NoSilentJobLoss ==
    batch.outcome = "return" =>
        batch.stats.total = batch.stats.applied + batch.stats.manual
                            + batch.stats.failed + batch.stats.skipped

\* the jobs with a url that are through the loop and none of whose
\* submissions was classified as applied or manual, every attempt of which
\* got as far as the submission
AlwaysRejected ==
    {j \in DOMAIN jobs \ Urlless :
        /\ Processed(j)
        /\ job_log[j].applied = 0 /\ job_log[j].manual = 0
        /\ job_log[j].submissions = job_log[j].attempts}

\* C12: a job whose every submission comes back with a status that is neither
\* applied nor manual is submitted max_retries + 1 times, counted once as
\* failed, and adds max_retries to the retried counter.
C12_ThreeAttemptsThenFailed ==
    \A j \in AlwaysRejected :
        /\ job_log[j].submissions = max_retries + 1
        /\ job_log[j].failed = 1
        /\ job_log[j].retried = max_retries

\* a finished one-job batch whose job was rejected three times
C12_Witness ==
    /\ batch.outcome = "return"
    /\ Len(jobs) = 1
    /\ 1 \in AlwaysRejected
    /\ batch.stats.failed = 1
    /\ batch.stats.retried = 2

\* C13: a job for which document generation failed is counted as failed; the
\* failing attempt makes no submission and is the job's last attempt.
C13_DocumentFailureIsFailed ==
    \A j \in DOMAIN jobs :
        (Processed(j) /\ job_log[j].documents > job_log[j].detections) =>
            /\ job_log[j].failed = 1
            /\ job_log[j].documents = job_log[j].detections + 1
            /\ job_log[j].submissions <= job_log[j].detections

\* C14: a submission whose status contains Applied or Success counts the job
\* as applied, one whose status contains Manual or Review (and neither of the
\* former) counts it as manual; the counter grows by exactly one, and a job
\* counted as applied or manual is never submitted again.
C14_OutcomeClassification ==
    [][ /\ (batch.pc = "submit" /\ batch'.pc \notin {"submit", "hung", "cleanup"}) =>
            LET st == batch'.status
                i == batch.i
                said(word) == st.t = "str" /\ Contains(st.v, word)
                applied == said("Applied") \/ said("Success")
                manual == ~applied /\ (said("Manual") \/ said("Review"))
            IN  /\ applied =>
                    /\ batch'.stats.applied = batch.stats.applied + 1
                    /\ batch'.stats.manual = batch.stats.manual
                    /\ job_log'[i].applied = 1
                    /\ batch'.application_successful
                /\ manual =>
                    /\ batch'.stats.manual = batch.stats.manual + 1
                    /\ batch'.stats.applied = batch.stats.applied
                    /\ job_log'[i].manual = 1
                    /\ batch'.application_successful
                /\ ~(applied \/ manual) =>
                    /\ batch'.stats.applied = batch.stats.applied
                    /\ batch'.stats.manual = batch.stats.manual
        /\ \A j \in DOMAIN jobs :
            job_log[j].applied + job_log[j].manual >= 1 =>
                /\ job_log'[j].submissions = job_log[j].submissions
                /\ job_log'[j].attempts = job_log[j].attempts
                /\ job_log'[j].applied = job_log[j].applied
                /\ job_log'[j].manual = job_log[j].manual ]_vars

\* a job counted as manual after a status that names a review, on its second
\* submission, its while loop left
C14_Witness ==
    /\ batch.pc = "after"
    /\ batch.status = PyStr("Needs Review")
    /\ job_log[batch.i].manual = 1
    /\ job_log[batch.i].applied = 0
    /\ job_log[batch.i].submissions = 2

\* the url cell of data row r as read_csv_jobs reads it
UrlCell(r) == DictGet(DictRow(csv.header, csv.rows[r], "url"), PyStr(""))

\* the rows with a blank or missing url value
BlankRows == {r \in DOMAIN csv.rows : UrlCell(r).t # "str" \/ Strip(UrlCell(r).v) = ""}

\* C15: for a CSV file read by read_csv_jobs and applied by apply_to_jobs, the
\* statistics count every row: total is the number of rows and skipped the
\* number of rows with a blank url.
C15_CsvRowsAllCounted ==
    (csv.read /\ batch.outcome = "return") =>
        /\ batch.stats.total = Len(csv.rows)
        /\ batch.stats.skipped = Cardinality(BlankRows)

\* the browser as it must be while apply_to_jobs stands at pc
BrowserAt(pc) ==
    IF pc = "idle" THEN NoBrowser
    ELSE IF pc \in InLoop \cup {"hung", "cleanup"}
        THEN [launched |-> 1, opened |-> 1, closed |-> 0, quit |-> 0]
    ELSE IF jobs = <<>> THEN NoBrowser
    ELSE [launched |-> 1, opened |-> 1, closed |-> 1, quit |-> 1]

\* C16: on a non-empty job list the context is opened exactly once, before the
\* first job; whenever the job loop is left, by its end or by an exception,
\* the context and the browser are eventually closed, exactly once; nothing
\* is done for any job after the close.
C16_BrowserOpenedAndClosedOnce ==
    /\ [](browser = BrowserAt(batch.pc))
    /\ [][browser.closed = 1 => (job_log' = job_log /\ batch'.stats = batch.stats)]_vars
    /\ (batch.pc = "cleanup") ~> (browser.closed = 1 /\ browser.quit = 1)

\* a batch that an exception left during the attempt of its second job, after
\* a first job that failed, and that has closed its context and browser
C16_Witness ==
    /\ Len(jobs) = 2
    /\ batch.pc = "done"
    /\ batch.outcome = "raise"
    /\ batch.i = 2
    /\ batch.stats.failed = 1
    /\ job_log[2].attempts = 1
    /\ browser = [launched |-> 1, opened |-> 1, closed |-> 1, quit |-> 1]

\* C17: no call of _submit_application_with_timeout stays without a return:
\* the runner never stands in a submission that will not come back.
C17_SubmissionNeverHangs == batch.pc # "hung"

\* the attempts after the first one, summed over the jobs 1..j
RECURSIVE LaterAttempts(_)
LaterAttempts(j) ==
    IF j = 0 THEN 0
    ELSE (IF job_log[j].attempts > 0 THEN job_log[j].attempts - 1 ELSE 0)
         + LaterAttempts(j - 1)

\* C29: no job gets more than max_retries + 1 attempts, nor more than that
\* many submissions, and the retried counter is the number of attempts that
\* were not the first attempt of their job.
C29_AtMostThreeAttempts ==
    /\ \A j \in DOMAIN job_log :
            /\ job_log[j].attempts <= max_retries + 1
            /\ job_log[j].submissions <= job_log[j].attempts
    /\ batch.stats.retried = LaterAttempts(Len(job_log))

\* a finished batch of two jobs, the first with three attempts and the second
\* with two: three retries are counted
C29_Witness ==
    /\ batch.outcome = "return"
    /\ Len(jobs) = 2
    /\ job_log[1].attempts = 3
    /\ job_log[1].submissions = 3
    /\ job_log[2].attempts = 2
    /\ batch.stats.retried = 3

\* C30: the failed counter grows for a job only when max_retries + 1
\* attempts have been started for it, whether the attempts ended with a
\* status or with an exception.
C30_FailedOnlyAfterLastAttempt ==
    [][ batch'.stats.failed > batch.stats.failed =>
            /\ batch'.stats.failed = batch.stats.failed + 1
            /\ job_log'[batch.i].attempts = max_retries + 1
            /\ job_log'[batch.i].failed = job_log[batch.i].failed + 1 ]_vars

\* a job counted as failed after its third submission raised
C30_Witness ==
    /\ batch.pc = "after"
    /\ batch.status = PyStr("Failed: boom")
    /\ job_log[batch.i].failed = 1
    /\ job_log[batch.i].attempts = max_retries + 1
    /\ job_log[batch.i].submissions = max_retries + 1
    /\ batch.stats.failed = 1

\* C31: a submission that the alarm interrupts comes back with the status
\* "Timeout"; the attempt counts neither as applied nor as manual, the job is
\* tried again while retry_count is below max_retries, and is counted as
\* failed when the timed-out attempt was the last one allowed.
C31_TimeoutIsARetryableFailure ==
    /\ submit_application_with_timeout([t |-> "hang", v |-> ""], TRUE) = PyStr("Timeout")
    /\ [][ (batch.pc = "submit" /\ batch'.pc \notin {"submit", "hung", "cleanup"}
                /\ batch'.status = PyStr("Timeout")) =>
                /\ batch'.stats.applied = batch.stats.applied
                /\ batch'.stats.manual = batch.stats.manual
                /\ ~batch'.application_successful
                /\ IF batch.retry_count < max_retries
                       THEN /\ batch'.pc = "attempt"
                            /\ batch'.stats.failed = batch.stats.failed
                       ELSE /\ batch'.pc = "after"
                            /\ batch'.stats.failed = batch.stats.failed + 1
                            /\ job_log'[batch.i].failed = 1 ]_vars

\* a job counted as failed after its third submission timed out
C31_Witness ==
    /\ batch.pc = "after"
    /\ batch.status = PyStr("Timeout")
    /\ job_log[batch.i].failed = 1
    /\ job_log[batch.i].submissions = max_retries + 1
    /\ batch.stats.failed = 1
    /\ batch.stats.applied = 0
    /\ batch.stats.manual = 0

\* the vendor names _get_submitter_with_fallback is asked for
AskedVendors == {"workday", "icims", "greenhouse", "bamboohr", "lever", "manual"}

\* C32: when get_submitter fails for the detected vendor, the manual submitter
\* is acquired instead and the attempt goes on to the submission with it; an
\* attempt is left without a submission only when get_submitter has failed
\* for "manual" as well.
C32_ManualSubmitterIsTheFallback ==
    /\ \A ats_name \in AskedVendors, manual \in AcquisitionOutcomes :
          /\ get_submitter_with_fallback(ats_name, "ok", manual) =
                 [submitter |-> ats_name, calls |-> 1]
          /\ get_submitter_with_fallback(ats_name, "raise", manual).calls = 2
          /\ get_submitter_with_fallback(ats_name, "raise", manual).submitter =
                 (IF manual = "ok" THEN "manual" ELSE "")
    /\ [][ (batch.pc = "submitter" /\ batch'.pc # "cleanup") =>
                /\ batch'.submitter \in {batch.detected_ats, "manual", ""}
                /\ batch'.submitter # "" => batch'.pc = "submit"
                /\ batch'.submitter = "" =>
                       /\ batch'.pc = "after"
                       /\ job_log'[batch.i].submissions = job_log[batch.i].submissions
                       /\ batch'.stats = batch.stats ]_vars

\* an attempt about to submit with the manual submitter for a job whose
\* detected vendor is another one
C32_Witness ==
    /\ batch.pc = "submit"
    /\ batch.submitter = "manual"
    /\ batch.detected_ats \notin {"manual", ""}

\* the vendors looked for in the URL, in the order of the tests
VendorOrder == <<"workday", "icims", "greenhouse", "bamboohr", "lever">>

NamedInUrl(url) ==
    {k \in DOMAIN VendorOrder : Contains(Lower(url.v), VendorOrder[k])}

FirstNamedInUrl(url) ==
    IF NamedInUrl(url) = {} THEN "manual"
    ELSE VendorOrder[CHOOSE k \in NamedInUrl(url) : \A m \in NamedInUrl(url) : k <= m]

VendorFor(url, ats_choice, detected) ==
    IF ats_choice # "auto" THEN ats_choice
    ELSE IF detected = "raise" THEN "manual"
    ELSE IF detected \notin {"", "unknown"} THEN detected
    ELSE FirstNamedInUrl(url)

\* C33: _detect_ats_with_fallback always returns a name and never raises: the
\* caller's ats_choice when it is not "auto"; else the detector's answer when
\* that is neither empty nor "unknown"; else the first of workday, icims,
\* greenhouse, bamboohr, lever found in the lower-cased URL; else, and when
\* the detection raises, "manual".
C33_DetectionFallsBackToUrlThenManual ==
    /\ \A url \in VendorUrls, ats_choice \in {"auto", "lever"}, detected \in DetectOutcomes :
          detect_ats_with_fallback(url, ats_choice, detected) =
              VendorFor(url, ats_choice, detected)
    /\ [][ (batch.pc = "detect" /\ batch'.pc # "cleanup") =>
                /\ batch'.pc = "submitter"
                /\ batch'.detected_ats # ""
                /\ batch'.detected_ats \in
                       {VendorFor(jobs[batch.i], batch.ats_choice, detected) :
                            detected \in DetectOutcomes}
                /\ batch.ats_choice # "auto" => batch'.detected_ats = batch.ats_choice ]_vars

\* the vendor was read off the URL: with ats_choice "auto" the job at
\* acme.bamboohr.com is taken for a bamboohr job
C33_Witness ==
    /\ batch.pc = "submitter"
    /\ batch.ats_choice = "auto"
    /\ jobs[batch.i] = PyStr("https://acme.bamboohr.com/jobs")
    /\ batch.detected_ats = "bamboohr"

\* job j has been counted as applied or as manual
Succeeded(j) == job_log[j].applied + job_log[j].manual > 0

\* C34: when the runner goes from a job to the next one it waits
\* delay_seconds if the job succeeded and twice that if it did not; it waits
\* 5 seconds before every attempt of a job but the first; it waits at no
\* other time, and not after the last job.
C34_DelaysBetweenJobsAndAttempts ==
    [][ /\ (batch.i \in DOMAIN jobs /\ batch'.i = batch.i + 1) =>
               sleeps' = IF batch.i < Len(jobs)
                             THEN Append(sleeps, delay_seconds *
                                             (IF Succeeded(batch.i) THEN 1 ELSE 2))
                             ELSE sleeps
        /\ (batch.pc = "attempt" /\ batch'.pc # "cleanup") =>
               sleeps' = IF job_log[batch.i].attempts > 0
                             THEN Append(sleeps, RetryDelay)
                             ELSE sleeps
        /\ (batch'.i = batch.i /\ batch.pc # "attempt") => sleeps' = sleeps ]_vars

\* C34, amended: the wait between jobs follows every job that has a URL and
\* is not the last one: delay_seconds if it succeeded, twice that if not.  A
\* job skipped for want of a URL is followed by no wait.  5 seconds are
\* waited before every attempt but the first, and no wait is made elsewhere.
C34_DelaysAfterJobsThatWereTried ==
    [][ /\ (batch.i \in DOMAIN jobs /\ batch'.i = batch.i + 1) =>
               sleeps' = IF HasUrl(jobs[batch.i]) /\ batch.i < Len(jobs)
                             THEN Append(sleeps, delay_seconds *
                                             (IF Succeeded(batch.i) THEN 1 ELSE 2))
                             ELSE sleeps
        /\ (batch.pc = "attempt" /\ batch'.pc # "cleanup") =>
               sleeps' = IF job_log[batch.i].attempts > 0
                             THEN Append(sleeps, RetryDelay)
                             ELSE sleeps
        /\ (batch'.i = batch.i /\ batch.pc # "attempt") => sleeps' = sleeps ]_vars

\* the second job is about to start after the first one was tried three
\* times without success: 5 seconds twice, then twice the base delay
C34_Witness ==
    /\ batch.pc = "job"
    /\ batch.i = 2
    /\ Len(jobs) = 2
    /\ job_log[1].attempts = max_retries + 1
    /\ ~Succeeded(1)
    /\ sleeps = <<RetryDelay, RetryDelay, 2 * delay_seconds>>

\* C35: no job is counted in more than one of applied, manual, failed and
\* skipped, nor twice in one of them, whatever happens after a successful
\* submission.
C35_AtMostOneTerminalState ==
    \A j \in DOMAIN job_log :
        job_log[j].applied + job_log[j].manual + job_log[j].failed + job_log[j].skipped <= 1

\* C39: where SIGALRM exists no alarm is pending once
\* _submit_application_with_timeout is left, however submit() ended; none
\* is pending during a later attempt, the wait before it, or the wait
\* between jobs.
C39_NoAlarmOutlivesItsSubmission ==
    /\ \A submit \in SubmitOutcomes : ~alarm_after_submit(submit, TRUE)
    /\ ~batch.alarm_pending

\* the wait before a second attempt, after a submission that the alarm ended
C39_Witness ==
    /\ batch.pc = "attempt"
    /\ batch.retry_count = 1
    /\ batch.status = PyStr("Timeout")
    /\ ~batch.alarm_pending

----------------------------------------------------------------------------
(* Claims about the metrics snapshot *)

\* C18: save_optimization_data never raises, whichever of its steps fails,
\* and it leaves every counter and average of the metrics as it found them.
C18_SaveIsBestEffort ==
    /\ [](snapshot.outcome # "raise")
    /\ [][snapshot'.saves # snapshot.saves =>
            (metrics' = metrics /\ snapshot'.outcome = "return")]_vars

\* a save whose write failed half way, after a result was recorded and an
\* earlier save had written the file
C18_Witness ==
    /\ snapshot.saves = 2
    /\ snapshot.fault = "dump"
    /\ snapshot.outcome = "return"
    /\ snapshot.file = "partial"
    /\ metrics.total_attempts = 1

----------------------------------------------------------------------------
(* Claims about the CSV reader *)

\* the data row behind the j-th job of the expected list: the j-th row whose
\* url value is not blank
KeptRow(j) ==
    CHOOSE r \in DOMAIN csv.rows \ BlankRows :
        Cardinality({q \in DOMAIN csv.rows \ BlankRows : q <= r}) = j

\* C21: read_csv_jobs returns an empty list when the header has no url
\* column; otherwise the list holds exactly the rows whose url value is not
\* blank or missing, in file order, each with its stripped url.
C21_BlankUrlRowsAreSkipped ==
    csv.read =>
        IF "url" \notin Range(csv.header) THEN jobs = <<>>
        ELSE /\ Len(jobs) = Len(csv.rows) - Cardinality(BlankRows)
             /\ \A j \in DOMAIN jobs :
                    /\ jobs[j] = PyStr(Strip(UrlCell(KeptRow(j)).v))
                    /\ jobs[j].v # ""

----------------------------------------------------------------------------
(* Claims about the manual-review queue *)

\* the last call was resolve or skip, met no fault and named a row
Applied(op) ==
    /\ review_call.op = op
    /\ review_call.returned
    /\ review_call.id \in DOMAIN review_queue

C37_NeverPendingAgain ==
    /\ [][ \A id \in DOMAIN review_queue :
               review_queue[id].status # "pending" =>
                   /\ id \in DOMAIN review_queue'
                   /\ review_queue'[id].status # "pending" ]_vars
    /\ [](review_call.op \in {"resolve", "skip"} =>
             /\ review_call.returned = ~review_call.fault
             /\ (review_call.returned /\ review_call.found # "none") =>
                    review_queue[review_call.id].status =
                        (IF review_call.op = "resolve" THEN "resolved" ELSE "skipped"))

\* a row that was resolved has just been skipped
C37_Witness ==
    /\ review_call.op = "skip"
    /\ review_call.found = "resolved"
    /\ review_call.returned
    /\ review_queue[review_call.id].status = "skipped"

============================================================================
